---- MODULE Spec2Model ----
(***************************************************************************)
(* Model of the workflow tools of plugins/workflow/tools:                  *)
(*   github.py  - CI check retrieval and the derived ci_status of a PR     *)
(*   git.py     - worktree lifecycle and the protected-branch push policy  *)
(*                                                                         *)
(* Python strings are modelled as sequences of one-character strings, so   *)
(* that str.upper, str.lower, str.replace and concatenation are computed   *)
(* character by character.  None is a value different from every string.   *)
(***************************************************************************)
EXTENDS Integers, Sequences, FiniteSets, TLC

VARIABLES
    gh_view,      \* what `gh pr view <n> --json ...` answers (environment)
    gh_list,      \* what `gh pr list` / `gh search prs` answers (environment)
    gh_checks,    \* what `gh pr checks <n> --json ...` answers, per PR number
    collection,   \* a check collection handed directly to the status rule
    checks_out,   \* list returned by get_pr_checks (CLI pr-checks)
    pr,           \* PullRequest returned by get_pr_with_checks, or NoPullRequest
    prs,          \* list returned by get_all_prs_with_status
    worktrees,    \* git: the registered secondary worktrees (path, branch, flow)
    branches,     \* git: the local branch names
    has_main,     \* git: whether `main` is a valid ref of the repository
    cwd,          \* working directory of the last command: in the repository or not
    arg,          \* the argument of the last command: a branch, a path, a PR number
    cmds,         \* the git commands the last git.py command issued, in order
    removed,      \* the worktrees the last git.py command removed
    ret,          \* what the last git.py function returned
    tree,         \* git: the uncommitted changes of the working tree
    commits,      \* git: how many commits the commit command has created
    gh_run,       \* what the `gh run view` / `gh run list` calls answer (environment)
    gh_cmds,      \* the gh commands the last get_failed_ci_logs issued, in order
    logs_out,     \* what the last get_failed_ci_logs returned, or that it raised
    git_list,     \* git: whether `worktree list` succeeds, and the worktrees it lists
    stdout,       \* what the last main-branch or list-worktrees command printed
    calls,        \* the create_worktree invocations running at the same time
    cmd,          \* the CLI command (or function) that ran last
    exit_code     \* exit status of the last CLI command

ci_vars == <<gh_view, gh_list, gh_checks, collection, checks_out, pr, prs>>
git_vars == <<worktrees, branches, has_main, cwd, arg, cmds, removed, ret>>
tree_vars == <<tree, commits>>
logs_vars == <<gh_run, gh_cmds, logs_out>>
out_vars == <<git_list, stdout>>
vars == <<gh_view, gh_list, gh_checks, collection, checks_out, pr, prs,
          worktrees, branches, has_main, cwd, arg, cmds, removed, ret,
          tree, commits, gh_run, gh_cmds, logs_out, git_list, stdout, calls,
          cmd, exit_code>>

----------------------------------------------------------------------------
(* Python values *)

\* Python's None: a one-element sequence whose element is no character.
None == <<"None">>

\* A key that is absent from a JSON object.
Missing == <<"Missing">>

AsciiUpper == <<"A", "B", "C", "D", "E", "F", "G", "H", "I", "J", "K", "L", "M",
                "N", "O", "P", "Q", "R", "S", "T", "U", "V", "W", "X", "Y", "Z">>
AsciiLower == <<"a", "b", "c", "d", "e", "f", "g", "h", "i", "j", "k", "l", "m",
                "n", "o", "p", "q", "r", "s", "t", "u", "v", "w", "x", "y", "z">>

\* The two case maps of the ASCII letters; every other character maps to itself.
to_upper == [c \in {AsciiLower[i] : i \in 1..Len(AsciiLower)} |->
                AsciiUpper[CHOOSE i \in 1..Len(AsciiLower) : AsciiLower[i] = c]]
to_lower == [c \in {AsciiUpper[i] : i \in 1..Len(AsciiUpper)} |->
                AsciiLower[CHOOSE i \in 1..Len(AsciiUpper) : AsciiUpper[i] = c]]

upper_char(c) == IF c \in DOMAIN to_upper THEN to_upper[c] ELSE c

lower_char(c) == IF c \in DOMAIN to_lower THEN to_lower[c] ELSE c

\* str.upper()
upper(s) == [i \in 1..Len(s) |-> upper_char(s[i])]

\* str.lower()
lower(s) == [i \in 1..Len(s) |-> lower_char(s[i])]

\* Python truthiness of an Optional[str]: None and "" are falsy.
truthy(x) == x # None /\ x # <<>>

\* dict.get(key, default)
dict_get(value, default) == IF value = Missing THEN default ELSE value

----------------------------------------------------------------------------
(* String literals of github.py *)

s_SUCCESS == <<"S", "U", "C", "C", "E", "S", "S">>
s_FAILURE == <<"F", "A", "I", "L", "U", "R", "E">>
s_ERROR == <<"E", "R", "R", "O", "R">>
s_PENDING == <<"P", "E", "N", "D", "I", "N", "G">>
s_success == <<"s", "u", "c", "c", "e", "s", "s">>
s_failure == <<"f", "a", "i", "l", "u", "r", "e">>
s_pending == <<"p", "e", "n", "d", "i", "n", "g">>
s_in_progress == <<"i", "n", "_", "p", "r", "o", "g", "r", "e", "s", "s">>
s_skipped == <<"s", "k", "i", "p", "p", "e", "d">>
s_neutral == <<"n", "e", "u", "t", "r", "a", "l">>
s_unknown == <<"u", "n", "k", "n", "o", "w", "n">>
s_failing == <<"f", "a", "i", "l", "i", "n", "g">>
s_passing == <<"p", "a", "s", "s", "i", "n", "g">>

\* Other tokens the hosting platform and the dataclass comments use.
s_cancelled == <<"c", "a", "n", "c", "e", "l", "l", "e", "d">>
s_error == <<"e", "r", "r", "o", "r">>
s_Failure == <<"F", "a", "i", "l", "u", "r", "e">>
s_IN_PROGRESS == <<"I", "N", "_", "P", "R", "O", "G", "R", "E", "S", "S">>
s_SKIPPED == <<"S", "K", "I", "P", "P", "E", "D">>
s_NEUTRAL == <<"N", "E", "U", "T", "R", "A", "L">>
s_CANCELLED == <<"C", "A", "N", "C", "E", "L", "L", "E", "D">>
s_build == <<"b", "u", "i", "l", "d">>

----------------------------------------------------------------------------
(* Bounds and input domains *)

\* Longest check list the environment answers with.
MaxChecks == 2

\* PR numbers of the repository.
PRNumbers == {1, 2}

\* Raw `state` values of `gh pr checks --json`: the documented tokens, in
\* several letter cases, the empty string and an absent key.
RawStates ==
    { s_SUCCESS, s_success, s_FAILURE, s_Failure, s_ERROR, s_PENDING,
      s_IN_PROGRESS, s_SKIPPED, s_NEUTRAL, s_CANCELLED, <<>>, Missing }

RawCheck == [name : {s_build}, state : RawStates, link : {None}]

SeqsUpTo(S, n) == UNION { [1..k -> S] : k \in 0..n }

\* Outcomes of one `gh` invocation, as run_gh and json.loads see them.
\*   "json"     exit 0, stdout is a JSON list (data)
\*   "empty"    exit 0, stdout is empty
\*   "garbage"  exit 0, stdout is not JSON
\*   "error"    non-zero exit (CalledProcessError)
\*   "notfound" the gh binary is not installed (FileNotFoundError)
GhFailures == { [kind |-> k, data |-> <<>>] : k \in {"empty", "garbage", "error", "notfound"} }

ChecksResponses ==
    { [kind |-> "json", data |-> d] : d \in SeqsUpTo(RawCheck, MaxChecks) } \cup GhFailures

\* The second PR answers from a few representative responses.
OtherChecksResponses ==
    { [kind |-> "json", data |-> <<[name |-> s_build, state |-> s, link |-> None]>>] :
        s \in {s_SUCCESS, s_FAILURE} }
    \cup { [kind |-> "error", data |-> <<>>] }

ListResponses ==
    { [kind |-> "json", data |-> d] : d \in {<<>>, <<1>>, <<1, 2>>} }
    \cup { [kind |-> k, data |-> <<>>] : k \in {"garbage", "error"} }

ViewResponses == {"json", "garbage", "error"}

\* Check collections for the status rule on its own: every combination of the
\* status and conclusion tokens of the CICheck dataclass.
Statuses ==
    { s_success, s_failure, s_error, s_pending, s_in_progress, s_skipped,
      s_cancelled, s_unknown }
Conclusions == { s_success, s_failure, s_skipped, s_neutral, s_cancelled, None }

CICheck == [name : {s_build}, status : Statuses, conclusion : Conclusions, url : {None}]

----------------------------------------------------------------------------
(* github.py *)

\* run_gh: (success, output)
run_gh(resp) ==
    [success |-> resp.kind \in {"json", "empty", "garbage"}, output |-> resp]

\* json.loads(output) raises JSONDecodeError
json_decode_error(output) == output.kind # "json"

json_loads(output) == output.data

\* The body of get_pr_checks's loop: one raw entry to one CICheck.
check_status(check_data) ==
    LET state == upper(dict_get(check_data.state, <<>>))
    IN  IF truthy(state) THEN lower(state) ELSE s_unknown

\* A changed mapping: ERROR no longer counted as a failure.
check_conclusion_error_unmapped(check_data) ==
    LET state == upper(dict_get(check_data.state, <<>>))
    IN  IF state = s_SUCCESS THEN s_success
        ELSE IF state = s_FAILURE THEN s_failure
        ELSE IF state = s_PENDING THEN None
        ELSE IF truthy(state) THEN lower(state) ELSE None

check_conclusion(check_data) ==
    LET state == upper(dict_get(check_data.state, <<>>))
    IN  IF state = s_SUCCESS THEN s_success
        ELSE IF state \in {s_FAILURE, s_ERROR} THEN s_failure
        ELSE IF state = s_PENDING THEN None
        ELSE IF truthy(state) THEN lower(state) ELSE None

to_CICheck(check_data) ==
    [ name       |-> dict_get(check_data.name, s_unknown),
      status     |-> check_status(check_data),
      conclusion |-> check_conclusion(check_data),
      url        |-> dict_get(check_data.link, None) ]

get_pr_checks(resp) ==
    LET r == run_gh(resp)
    IN  IF ~r.success THEN <<>>
        ELSE IF json_decode_error(r.output) THEN <<>>
        ELSE LET checks_data == json_loads(r.output)
             IN  [i \in 1..Len(checks_data) |-> to_CICheck(checks_data[i])]

\* A changed rule: all() in place of any() in the failure test.
ci_status_with_checks_all_failure(checks) ==
    IF ~(Len(checks) > 0) THEN s_unknown
    ELSE IF \A i \in 1..Len(checks) : checks[i].conclusion = s_failure THEN s_failing
    ELSE IF \E i \in 1..Len(checks) : checks[i].status = s_pending \/ checks[i].status = s_in_progress THEN s_pending
    ELSE IF \A i \in 1..Len(checks) :
                truthy(checks[i].conclusion)
                    => checks[i].conclusion \in {s_success, s_skipped, s_neutral}
         THEN s_passing
    ELSE s_unknown

\* A changed rule: skipped left out of the passing conclusions.
ci_status_with_checks_no_skipped(checks) ==
    IF ~(Len(checks) > 0) THEN s_unknown
    ELSE IF \E i \in 1..Len(checks) : checks[i].conclusion = s_failure THEN s_failing
    ELSE IF \E i \in 1..Len(checks) : checks[i].status = s_pending \/ checks[i].status = s_in_progress THEN s_pending
    ELSE IF \A i \in 1..Len(checks) :
                truthy(checks[i].conclusion)
                    => checks[i].conclusion \in {s_success, s_neutral}
         THEN s_passing
    ELSE s_unknown

\* A changed rule: the empty-collection branch dropped.
ci_status_with_checks_no_empty_case(checks) ==
    IF \E i \in 1..Len(checks) : checks[i].conclusion = s_failure THEN s_failing
    ELSE IF \E i \in 1..Len(checks) : checks[i].status = s_pending \/ checks[i].status = s_in_progress THEN s_pending
    ELSE IF \A i \in 1..Len(checks) :
                truthy(checks[i].conclusion)
                    => checks[i].conclusion \in {s_success, s_skipped, s_neutral}
         THEN s_passing
    ELSE s_unknown

\* The if/elif chain of get_pr_with_checks.
ci_status_with_checks(checks) ==
    IF ~(Len(checks) > 0) THEN s_unknown
    ELSE IF \E i \in 1..Len(checks) : checks[i].conclusion = s_failure THEN s_failing
    ELSE IF \E i \in 1..Len(checks) :
                checks[i].status = s_pending \/ checks[i].status = s_in_progress
         THEN s_pending
    ELSE IF \A i \in 1..Len(checks) :
                truthy(checks[i].conclusion)
                    => checks[i].conclusion \in {s_success, s_skipped, s_neutral}
         THEN s_passing
    ELSE s_unknown

\* A changed rule: the pending test placed before the failure test.
ci_status_all_prs_pending_first(checks) ==
    IF ~(Len(checks) > 0) THEN s_unknown
    ELSE IF \E i \in 1..Len(checks) : checks[i].status = s_pending \/ checks[i].status = s_in_progress THEN s_pending
    ELSE IF \E i \in 1..Len(checks) : checks[i].conclusion = s_failure THEN s_failing
    ELSE IF \A i \in 1..Len(checks) :
                truthy(checks[i].conclusion)
                    => checks[i].conclusion \in {s_success, s_skipped, s_neutral}
         THEN s_passing
    ELSE s_unknown

\* A changed rule: the pending test without in_progress.
ci_status_all_prs_no_in_progress(checks) ==
    IF ~(Len(checks) > 0) THEN s_unknown
    ELSE IF \E i \in 1..Len(checks) : checks[i].conclusion = s_failure THEN s_failing
    ELSE IF \E i \in 1..Len(checks) : checks[i].status = s_pending THEN s_pending
    ELSE IF \A i \in 1..Len(checks) :
                truthy(checks[i].conclusion)
                    => checks[i].conclusion \in {s_success, s_skipped, s_neutral}
         THEN s_passing
    ELSE s_unknown

\* The if/elif chain of get_all_prs_with_status (a second, inlined copy).
ci_status_all_prs(checks) ==
    IF ~(Len(checks) > 0) THEN s_unknown
    ELSE IF \E i \in 1..Len(checks) : checks[i].conclusion = s_failure THEN s_failing
    ELSE IF \E i \in 1..Len(checks) :
                checks[i].status = s_pending \/ checks[i].status = s_in_progress
         THEN s_pending
    ELSE IF \A i \in 1..Len(checks) :
                truthy(checks[i].conclusion)
                    => checks[i].conclusion \in {s_success, s_skipped, s_neutral}
         THEN s_passing
    ELSE s_unknown

\* The None that get_pr_with_checks returns in place of a PullRequest.
NoPullRequest == [none |-> TRUE]

\* PullRequest(...): checks defaults to [] and ci_status to "unknown".
PullRequest(number, repo) ==
    [number |-> number, repo |-> repo, checks |-> <<>>, ci_status |-> s_unknown]

\* get_my_prs: one PullRequest per listed entry, in listing order; a failed
\* or unparseable listing gives [].
get_my_prs(resp, repo) ==
    LET r == run_gh(resp)
    IN  IF ~r.success THEN <<>>
        ELSE IF json_decode_error(r.output) THEN <<>>
        ELSE LET prs_data == json_loads(r.output)
             IN  [i \in 1..Len(prs_data) |-> PullRequest(prs_data[i], repo)]

\* get_pr_with_checks
get_pr_with_checks(pr_number, repo) ==
    IF gh_view = "error" THEN NoPullRequest
    ELSE IF gh_view = "garbage" THEN NoPullRequest
    ELSE LET checks == get_pr_checks(gh_checks[pr_number])
         IN  [PullRequest(pr_number, repo) EXCEPT
                 !.checks = checks,
                 !.ci_status = ci_status_with_checks(checks)]

\* A changed get_all_prs_with_status: every PR's status is computed from the
\* checks of the first listed PR.
get_all_prs_with_status_from_first(repo) ==
    LET listed == get_my_prs(gh_list, repo)
    IN  [i \in 1..Len(listed) |->
            LET checks == get_pr_checks(gh_checks[listed[i].number])
            IN  [listed[i] EXCEPT
                    !.checks = checks,
                    !.ci_status =
                        ci_status_all_prs(get_pr_checks(gh_checks[listed[1].number]))]]

\* get_all_prs_with_status
get_all_prs_with_status(repo) ==
    LET listed == get_my_prs(gh_list, repo)
    IN  [i \in 1..Len(listed) |->
            LET checks == get_pr_checks(gh_checks[listed[i].number])
            IN  [listed[i] EXCEPT
                    !.checks = checks,
                    !.ci_status = ci_status_all_prs(checks)]]

\* PullRequest.is_ci_failing
is_ci_failing(p) == p.ci_status = s_failing

\* A changed get_failed_checks: the status is tested in place of the conclusion.
get_failed_checks_by_status(p) == SelectSeq(p.checks, LAMBDA c : c.status = s_failure)

\* get_failed_checks
get_failed_checks(p) == SelectSeq(p.checks, LAMBDA c : c.conclusion = s_failure)

----------------------------------------------------------------------------
(* github.py: get_failed_ci_logs.  Texts are sequences of fragments, a      *)
(* fragment being one character (URLs, names) or a fixed piece of a message. *)

s_actions_runs == <<"/", "a", "c", "t", "i", "o", "n", "s", "/", "r", "u", "n", "s", "/">>

\* Detail links of a check: a CI-run URL (run 7) and a URL of another kind.
s_run_url == <<"h">> \o s_actions_runs \o <<"7", "/", "j">>
s_other_url == <<"h", "/", "x">>

\* The `link` of a raw check: absent, null, not a CI-run URL, a CI-run URL.
LinkShapes == {Missing, None, s_other_url, s_run_url}

LogCheck == [name : {s_build}, state : {s_FAILURE, s_SUCCESS}, link : LinkShapes]

\* Answers to `gh pr checks <n> --json name,state,link`.
LogChecksResponses ==
    { [kind |-> "json", data |-> d] : d \in SeqsUpTo(LogCheck, MaxChecks) }
    \cup { [kind |-> k, data |-> <<>>] : k \in {"garbage", "error", "notfound"} }

\* Check names given to --check.
s_lint == <<"l", "i", "n", "t">>
CheckNames == {None, s_build, s_lint}

\* Answers to `gh run view <id> --json jobs`: an error, unparseable output,
\* a run without a failed job, a run with one failed job.
\* A databaseId is modelled by its decimal digits, as str(job_id) gives them.
Job(conclusion, id) == [conclusion |-> conclusion, databaseId |-> id, name |-> <<"j">>]
JobsResponses ==
    { [kind |-> "error", data |-> <<>>], [kind |-> "garbage", data |-> <<>>],
      [kind |-> "json", data |-> <<Job(s_success, <<"1", "1">>)>>],
      [kind |-> "json", data |-> <<Job(s_failure, <<"1", "2">>)>>] }

\* Answers to `gh run list --branch pr/<n> --json databaseId,conclusion,name`:
\* an error, unparseable output, one successful run, one failed run, and a
\* listing of five runs of which four failed.
Run(conclusion, id) == [conclusion |-> conclusion, databaseId |-> id, name |-> <<"r">>]
RunListResponses ==
    { [kind |-> "error", data |-> <<>>], [kind |-> "garbage", data |-> <<>>],
      [kind |-> "json", data |-> <<Run(s_success, <<"2", "1">>)>>],
      [kind |-> "json", data |-> <<Run(s_failure, <<"2", "2">>)>>],
      [kind |-> "json",
       data |-> <<Run(s_failure, <<"2", "3">>), Run(s_success, <<"2", "4">>),
                  Run(s_failure, <<"2", "5">>), Run(s_failure, <<"2", "6">>),
                  Run(s_failure, <<"2", "7">>)>>] }

\* Answers to the two --log-failed commands: an error, no output, a log.
LogResponses == {"error", "empty", "text"}
s_job_log == <<"log of the failed job">>
s_run_log == <<"log of the failed run">>

\* The messages get_failed_ci_logs returns instead of logs.
s_failed_to_get_checks == <<"Failed to get checks: ">>
s_failed_to_parse == <<"Failed to parse checks data">>
s_no_failed_checks == <<"No failed checks found">>
s_could_not_retrieve ==
    <<"Could not retrieve failure logs. Check the GitHub Actions UI directly.">>
s_gh_not_found == <<"gh CLI not found. Install it from https://cli.github.com/">>
s_gh_stderr == <<"stderr of gh">>

\* f"Check '{check_name}' not found or not failing"
check_not_found(check_name) == <<"Check '">> \o check_name \o <<"' not found or not failing">>

\* The second element of run_gh's result when the command failed.
gh_error_output(resp) == IF resp.kind = "notfound" THEN s_gh_not_found ELSE s_gh_stderr

\* The position of the first occurrence of sub in s, 0 when there is none.
find(s, sub) ==
    LET at == { i \in 1..(Len(s) - Len(sub) + 1) : SubSeq(s, i, i + Len(sub) - 1) = sub }
    IN  IF at = {} THEN 0 ELSE CHOOSE i \in at : \A j \in at : i <= j

\* sub in s
contains(s, sub) == find(s, sub) # 0

\* str.split(sep)
RECURSIVE split(_, _)
split(s, sep) ==
    IF ~contains(s, sep) THEN <<s>>
    ELSE <<SubSeq(s, 1, find(s, sep) - 1)>>
            \o split(SubSeq(s, find(s, sep) + Len(sep), Len(s)), sep)

\* sep.join(list)
RECURSIVE join(_, _)
join(sep, list) ==
    IF list = <<>> THEN <<>>
    ELSE IF Len(list) = 1 THEN list[1]
    ELSE list[1] \o sep \o join(sep, Tail(list))

\* One entry of the gh command log: the command, its arguments, whether it
\* succeeded and whether its output went into the logs.
Gh(name, args, ok, logged) == [gh |-> name, args |-> args, ok |-> ok, logged |-> logged]

\* What the loop of get_failed_ci_logs carries from check to check: the
\* list `logs`, the gh commands issued so far, and whether it has raised.
LogsState(logs, log, raised) == [logs |-> logs, log |-> log, raised |-> raised]

\* failed_runs[:3]
FallbackRuns == 3

\* for job in failed_jobs: `gh run view --job <id> --log-failed`
RECURSIVE fetch_job_logs(_, _, _, _)
fetch_job_logs(failed_jobs, k, check_name_str, a) ==
    IF k > Len(failed_jobs) THEN a
    ELSE LET job == failed_jobs[k]
             job_id == dict_get(job.databaseId, None)
         IN  IF ~truthy(job_id) THEN fetch_job_logs(failed_jobs, k + 1, check_name_str, a)
             ELSE LET success == gh_run.job_log # "error"
                      log_output == IF gh_run.job_log = "text" THEN s_job_log ELSE <<>>
                      logged == success /\ log_output # <<>>
                      header == <<"=== ">> \o check_name_str \o <<" - ">>
                                   \o dict_get(job.name, <<"unknown job">>) \o <<" ===">>
                  IN  fetch_job_logs(failed_jobs, k + 1, check_name_str,
                          [a EXCEPT
                              !.log = Append(@, Gh("run view --job --log-failed",
                                                   <<job_id>>, success, logged)),
                              !.logs = IF logged THEN @ \o <<header, log_output, <<>>>>
                                       ELSE @])

\* The run-link stage for one check whose link holds "/actions/runs/".
run_link_stage(details_url, check_name_str, a) ==
    LET run_id == split(split(details_url, s_actions_runs)[2], <<"/">>)[1]
        r == run_gh(gh_run.jobs)
        a1 == [a EXCEPT !.log = Append(@, Gh("run view --json jobs", <<run_id>>,
                                             r.success, FALSE))]
    IN  IF ~r.success THEN a1
        ELSE IF json_decode_error(r.output) THEN a1
        ELSE LET jobs_data == json_loads(r.output)
                 failed_jobs == SelectSeq(jobs_data, LAMBDA j : j.conclusion = s_failure)
             IN  fetch_job_logs(failed_jobs, 1, check_name_str, a1)

\* for run in failed_runs[:3]: `gh run view <id> --log-failed`
RECURSIVE fetch_run_logs(_, _, _)
fetch_run_logs(failed_runs, k, a) ==
    IF k > Len(failed_runs) THEN a
    ELSE LET run == failed_runs[k]
             run_id == dict_get(run.databaseId, None)
         IN  IF ~truthy(run_id) THEN fetch_run_logs(failed_runs, k + 1, a)
             ELSE LET success == gh_run.run_log # "error"
                      log_output == IF gh_run.run_log = "text" THEN s_run_log ELSE <<>>
                      logged == success /\ log_output # <<>>
                      header == <<"=== ">> \o dict_get(run.name, s_unknown) \o <<" ===">>
                  IN  fetch_run_logs(failed_runs, k + 1,
                          [a EXCEPT
                              !.log = Append(@, Gh("run view --log-failed",
                                                   <<run_id>>, success, logged)),
                              !.logs = IF logged THEN @ \o <<header, log_output, <<>>>>
                                       ELSE @])

\* A changed fallback stage: the log of every failed run is fetched.
fallback_stage_every_failed_run(pr_number, a) ==
    LET r == run_gh(gh_run.list)
        a1 == [a EXCEPT !.log = Append(@, Gh("run list", <<pr_number>>, r.success, FALSE))]
    IN  IF ~r.success THEN a1
        ELSE IF json_decode_error(r.output) THEN a1
        ELSE LET runs == json_loads(r.output)
                 failed_runs == SelectSeq(runs, LAMBDA x : x.conclusion = s_failure)
                 first == failed_runs
             IN  fetch_run_logs(first, 1, a1)

\* The fallback stage: `gh run list --branch pr/<n>` and the first runs of it.
fallback_stage(pr_number, a) ==
    LET r == run_gh(gh_run.list)
        a1 == [a EXCEPT !.log = Append(@, Gh("run list", <<pr_number>>, r.success, FALSE))]
    IN  IF ~r.success THEN a1
        ELSE IF json_decode_error(r.output) THEN a1
        ELSE LET runs == json_loads(r.output)
                 failed_runs == SelectSeq(runs, LAMBDA x : x.conclusion = s_failure)
                 first == SubSeq(failed_runs, 1,
                                 IF Len(failed_runs) < FallbackRuns THEN Len(failed_runs)
                                 ELSE FallbackRuns)
             IN  fetch_run_logs(first, 1, a1)

\* The body of `for check in failed_checks`.  A null link is None, and
\* `"/actions/runs/" in None` raises TypeError, which nothing catches.
resolve_check(pr_number, check, a) ==
    LET details_url == dict_get(check.link, <<>>)
        check_name_str == dict_get(check.name, s_unknown)
    IN  IF details_url = None THEN [a EXCEPT !.raised = TRUE]
        ELSE LET a1 == IF contains(details_url, s_actions_runs)
                       THEN run_link_stage(details_url, check_name_str, a)
                       ELSE a
             IN  IF a1.logs = <<>> THEN fallback_stage(pr_number, a1) ELSE a1

\* for check in failed_checks
RECURSIVE resolve_logs(_, _, _, _)
resolve_logs(pr_number, failed_checks, i, a) ==
    IF i > Len(failed_checks) \/ a.raised THEN a
    ELSE resolve_logs(pr_number, failed_checks, i + 1,
                      resolve_check(pr_number, failed_checks[i], a))

\* What get_failed_ci_logs hands back: the text it returns, or that it
\* raised, and the gh commands it issued.
LogsResult(text, raised, log) == [text |-> text, raised |-> raised, log |-> log]

\* A changed get_failed_ci_logs: the name filter is applied before the test
\* for no failing check at all.
get_failed_ci_logs_filters_first(pr_number, check_name) ==
    LET r == run_gh(gh_checks[pr_number])
        log0 == <<Gh("pr checks", <<pr_number>>, r.success, FALSE)>>
    IN  IF ~r.success
        THEN LogsResult(s_failed_to_get_checks \o gh_error_output(r.output), FALSE, log0)
        ELSE IF json_decode_error(r.output) THEN LogsResult(s_failed_to_parse, FALSE, log0)
        ELSE
        LET checks == json_loads(r.output)
            failed_checks ==
                SelectSeq(checks, LAMBDA c : upper(dict_get(c.state, <<>>))
                                                \in {s_FAILURE, s_ERROR})
            named == SelectSeq(failed_checks,
                               LAMBDA c : dict_get(c.name, None) = check_name)
        IN  IF truthy(check_name) /\ named = <<>>
            THEN LogsResult(check_not_found(check_name), FALSE, log0)
            ELSE IF failed_checks = <<>> THEN LogsResult(s_no_failed_checks, FALSE, log0)
            ELSE LET a == resolve_logs(pr_number,
                                       IF truthy(check_name) THEN named ELSE failed_checks,
                                       1, LogsState(<<>>, log0, FALSE))
                 IN  IF a.raised THEN LogsResult(<<>>, TRUE, a.log)
                     ELSE IF a.logs = <<>>
                     THEN LogsResult(s_could_not_retrieve, FALSE, a.log)
                     ELSE LogsResult(join(<<"\n">>, a.logs), FALSE, a.log)

\* get_failed_ci_logs
get_failed_ci_logs(pr_number, check_name) ==
    LET r == run_gh(gh_checks[pr_number])
        log0 == <<Gh("pr checks", <<pr_number>>, r.success, FALSE)>>
    IN  IF ~r.success
        THEN LogsResult(s_failed_to_get_checks \o gh_error_output(r.output), FALSE, log0)
        ELSE IF json_decode_error(r.output) THEN LogsResult(s_failed_to_parse, FALSE, log0)
        ELSE
        LET checks == json_loads(r.output)
            failed_checks ==
                SelectSeq(checks, LAMBDA c : upper(dict_get(c.state, <<>>))
                                                \in {s_FAILURE, s_ERROR})
            named == SelectSeq(failed_checks,
                               LAMBDA c : dict_get(c.name, None) = check_name)
        IN  IF failed_checks = <<>> THEN LogsResult(s_no_failed_checks, FALSE, log0)
            ELSE IF truthy(check_name) /\ named = <<>>
            THEN LogsResult(check_not_found(check_name), FALSE, log0)
            ELSE LET a == resolve_logs(pr_number,
                                       IF truthy(check_name) THEN named ELSE failed_checks,
                                       1, LogsState(<<>>, log0, FALSE))
                 IN  IF a.raised THEN LogsResult(<<>>, TRUE, a.log)
                     ELSE IF a.logs = <<>>
                     THEN LogsResult(s_could_not_retrieve, FALSE, a.log)
                     ELSE LogsResult(join(<<"\n">>, a.logs), FALSE, a.log)


WORKTREE_BASE == <<".", "w", "o", "r", "k", "t", "r", "e", "e", "s">>

s_main == <<"m", "a", "i", "n">>
s_master == <<"m", "a", "s", "t", "e", "r">>
s_develop == <<"d", "e", "v", "e", "l", "o", "p">>
s_production == <<"p", "r", "o", "d", "u", "c", "t", "i", "o", "n">>
s_staging == <<"s", "t", "a", "g", "i", "n", "g">>
s_origin_slash == <<"o", "r", "i", "g", "i", "n", "/">>
s_ci_fix == <<"c", "i", "-", "f", "i", "x", "-">>

PROTECTED_BRANCHES == {s_main, s_master, s_develop, s_production, s_staging}

\* The repository root that `git rev-parse --show-toplevel` prints: /home/app
RepoRoot == << <<"h", "o", "m", "e">>, <<"a", "p", "p">> >>

\* Branch names given to the worktree commands.
s_f_slash_x == <<"f", "/", "x">>
s_f_dash_x == <<"f", "-", "x">>
s_ci_fix_f_slash_x == <<"c", "i", "-", "f", "i", "x", "-", "f", "/", "x">>

WorktreeBranches == {s_f_slash_x, s_f_dash_x, s_ci_fix_f_slash_x}

\* Branch names given to push: protected names in several letter cases, and
\* names that are not protected.
PushBranches ==
    { s_main, <<"M", "a", "i", "n">>, <<"M", "A", "S", "T", "E", "R">>, s_develop,
      <<"P", "r", "o", "d", "u", "c", "t", "i", "o", "n">>, s_staging,
      <<"S", "T", "A", "G", "I", "N", "G">>,
      <<"m", "a", "i", "n", "-", "2">>, s_f_slash_x, s_f_dash_x }

\* A worktree whose HEAD is detached has no branch.
DETACHED == None

\* Where a command runs: inside the repository or outside any repository.
Cwds == {"repo", "elsewhere"}

----------------------------------------------------------------------------
(* pathlib and str helpers *)

\* str.replace(old, new) for one-character old and new.
replace(s, old, new) == [i \in 1..Len(s) |-> IF s[i] = old THEN new ELSE s[i]]

\* The components of a relative path string: its maximal runs without "/".
RECURSIVE split_path(_)
split_path(s) ==
    IF s = <<>> THEN <<>>
    ELSE IF s[1] = "/" THEN split_path(Tail(s))
    ELSE LET n == IF \E i \in 1..Len(s) : s[i] = "/"
                  THEN (CHOOSE i \in 1..Len(s) :
                            s[i] = "/" /\ \A j \in 1..(i - 1) : s[j] # "/") - 1
                  ELSE Len(s)
         IN  <<SubSeq(s, 1, n)>> \o split_path(SubSeq(s, n + 1, Len(s)))

\* Path / str: a path is the sequence of its components.
path_join(p, s) == p \o split_path(s)

\* Path.parent and Path.name
path_parent(p) == SubSeq(p, 1, Len(p) - 1)
path_name(p) == p[Len(p)]

----------------------------------------------------------------------------
(* git.py: worktree paths *)

\* A changed path: the branch name joined to the base without sanitizing it.
worktree_path_new_unsanitized(repo_root, branch_name) ==
    LET worktree_base == path_join(path_join(path_parent(repo_root), WORKTREE_BASE),
                                   path_name(repo_root))
    IN  path_join(worktree_base, branch_name)

\* create_worktree: worktree_base / branch_name.replace("/", "-")
worktree_path_new(repo_root, branch_name) ==
    LET worktree_base == path_join(path_join(path_parent(repo_root), WORKTREE_BASE),
                                   path_name(repo_root))
    IN  path_join(worktree_base, replace(branch_name, "/", "-"))

\* create_worktree_for_existing_branch:
\* worktree_base / f"ci-fix-{branch_name.replace('/', '-')}"
worktree_path_existing(repo_root, branch_name) ==
    LET worktree_base == path_join(path_join(path_parent(repo_root), WORKTREE_BASE),
                                   path_name(repo_root))
    IN  path_join(worktree_base, s_ci_fix \o replace(branch_name, "/", "-"))

WorktreePaths ==
    { worktree_path_new(RepoRoot, b) : b \in WorktreeBranches }
    \cup { worktree_path_existing(RepoRoot, b) : b \in WorktreeBranches }

----------------------------------------------------------------------------
(* git: the effect of the commands git.py issues.  A command succeeds only  *)
(* when git's own preconditions hold and the environment lets it (`env`);   *)
(* env = FALSE is a failure from outside: network, disk, remote state.      *)

\* worktree_path.exists()
path_exists(wts, path) == \E w \in wts : w.path = path

checked_out(wts, branch) == \E w \in wts : w.branch = branch

\* One entry of the command log.
Git(name, args, ok) == [git |-> name, args |-> args, ok |-> ok]

\* The state a git.py function threads through its commands.
GitState(wts, brs, log, rm) == [wts |-> wts, brs |-> brs, log |-> log, rm |-> rm, ok |-> TRUE]

\* git worktree remove --force <path>
git_worktree_remove(s, path, env) ==
    LET ok == env /\ path_exists(s.wts, path)
        gone == { w \in s.wts : w.path = path }
    IN  [s EXCEPT !.wts = IF ok THEN s.wts \ gone ELSE s.wts,
                  !.rm = IF ok THEN s.rm \cup gone ELSE s.rm,
                  !.log = Append(s.log, Git("worktree remove --force", <<path>>, ok)),
                  !.ok = ok]

\* git worktree add -b <branch> <path> <start>   (track = FALSE)
\* git worktree add --track -b <branch> <path> <start>   (track = TRUE)
git_worktree_add_b(s, branch, path, start, track, flow, env) ==
    LET ok == env /\ ~path_exists(s.wts, path) /\ branch \notin s.brs
    IN  [s EXCEPT !.wts = IF ok
                          THEN s.wts \cup {[path |-> path, branch |-> branch, flow |-> flow]}
                          ELSE s.wts,
                  !.brs = IF ok THEN s.brs \cup {branch} ELSE s.brs,
                  !.log = Append(s.log,
                                 Git(IF track THEN "worktree add --track -b"
                                              ELSE "worktree add -b",
                                     <<branch, path, start>>, ok)),
                  !.ok = ok]

\* git worktree add <path> <branch>: checks out the local branch, or creates
\* it from the remote-tracking branch of that name when there is one.
git_worktree_add(s, path, branch, flow, env) ==
    LET ok == env /\ ~path_exists(s.wts, path) /\ ~checked_out(s.wts, branch)
    IN  [s EXCEPT !.wts = IF ok
                          THEN s.wts \cup {[path |-> path, branch |-> branch, flow |-> flow]}
                          ELSE s.wts,
                  !.brs = IF ok THEN s.brs \cup {branch} ELSE s.brs,
                  !.log = Append(s.log, Git("worktree add", <<path, branch>>, ok)),
                  !.ok = ok]

\* git worktree add --detach <path> <start>
git_worktree_add_detach(s, path, start, flow, env) ==
    LET ok == env /\ ~path_exists(s.wts, path)
    IN  [s EXCEPT !.wts = IF ok
                          THEN s.wts \cup {[path |-> path, branch |-> DETACHED, flow |-> flow]}
                          ELSE s.wts,
                  !.log = Append(s.log, Git("worktree add --detach", <<path, start>>, ok)),
                  !.ok = ok]

\* git checkout -B <branch>, run inside the worktree at <path>
git_checkout_B(s, path, branch, env) ==
    LET ok == env /\ path_exists(s.wts, path)
                  /\ ~checked_out({ w \in s.wts : w.path # path }, branch)
    IN  [s EXCEPT !.wts = IF ok
                          THEN { IF w.path = path THEN [w EXCEPT !.branch = branch] ELSE w :
                                    w \in s.wts }
                          ELSE s.wts,
                  !.brs = IF ok THEN s.brs \cup {branch} ELSE s.brs,
                  !.log = Append(s.log, Git("checkout -B", <<branch>>, ok)),
                  !.ok = ok]

\* git fetch origin <branch>:<branch>: creates or updates the local branch;
\* git refuses to fetch into a branch that is checked out.
git_fetch_into(s, branch, env) ==
    LET ok == env /\ ~checked_out(s.wts, branch)
    IN  [s EXCEPT !.brs = IF ok THEN s.brs \cup {branch} ELSE s.brs,
                  !.log = Append(s.log, Git("fetch origin", <<branch \o <<":">> \o branch>>, ok)),
                  !.ok = ok]

\* Commands that change nothing the model tracks: fetch origin [<ref>],
\* worktree prune, branch --set-upstream-to, push -u origin <branch>.
git_other(s, name, args, env) ==
    [s EXCEPT !.log = Append(s.log, Git(name, args, env)), !.ok = env]

----------------------------------------------------------------------------
(* git.py functions.  `faults` is the set of commands of this invocation    *)
(* that the environment makes fail.                                         *)

\* At most this many commands of one invocation fail from outside.
MaxFaults == 1

\* The commands each git.py function may issue that can fail from outside.
CreateSlots == {"fetch", "remove", "add-1", "add-2"}
CheckoutSlots ==
    { "fetch", "fetch-all", "remove", "prune", "add-1", "add-2", "add-3",
      "checkout", "set-upstream" }
RemoveSlots == {"remove"}
PushSlots == {"push"}

\* Outside a repository every git command fails by itself: no choice is left.
FaultSets(slots, where) ==
    IF where = "repo"
    THEN { F \in SUBSET slots : Cardinality(F) <= MaxFaults }
    ELSE { {} }

\* What a git.py function hands back: the git state it leaves and its result.
Returned(s, ok, path) == [s |-> s, ok |-> ok, path |-> path]

\* A changed get_repo_root: a root is found from every directory.
get_repo_root_found_everywhere(where) == RepoRoot

\* get_repo_root: `git rev-parse --show-toplevel`
get_repo_root(where) == IF where = "repo" THEN RepoRoot ELSE None

\* A changed get_main_branch: the name is fixed.
get_main_branch_always_main(main_ok) == s_main

\* get_main_branch: `git rev-parse --verify main`
get_main_branch(main_ok) == IF main_ok THEN s_main ELSE s_master

\* A changed create_worktree: an occupied path is not force-removed.
create_worktree_without_remove(s0, branch_name, where, main_ok, faults) ==
    LET repo_root == get_repo_root(where)
        s1 == git_other(s0, "rev-parse --show-toplevel", <<>>, repo_root # None)
    IN  IF repo_root = None THEN Returned(s1, FALSE, None)
        ELSE
        LET main_branch == get_main_branch(main_ok)
            s2 == git_other(s1, "rev-parse --verify", <<s_main>>, main_ok)
            s3 == git_other(s2, "fetch origin", <<main_branch>>, "fetch" \notin faults)
            worktree_path == worktree_path_new(repo_root, branch_name)
            s5 == git_worktree_add_b(s3, branch_name, worktree_path,
                                     s_origin_slash \o main_branch, FALSE, "new",
                                     "add-1" \notin faults)
            s6 == IF ~s5.ok
                  THEN git_worktree_add(s5, worktree_path, branch_name, "new",
                                        "add-2" \notin faults)
                  ELSE s5
        IN  IF ~s6.ok THEN Returned(s6, FALSE, None)
            ELSE Returned(s6, TRUE, worktree_path)

\* A changed create_worktree: the plain add runs whether or not add -b failed.
create_worktree_always_retries(s0, branch_name, where, main_ok, faults) ==
    LET repo_root == get_repo_root(where)
        s1 == git_other(s0, "rev-parse --show-toplevel", <<>>, repo_root # None)
    IN  IF repo_root = None THEN Returned(s1, FALSE, None)
        ELSE
        LET main_branch == get_main_branch(main_ok)
            s2 == git_other(s1, "rev-parse --verify", <<s_main>>, main_ok)
            s3 == git_other(s2, "fetch origin", <<main_branch>>, "fetch" \notin faults)
            worktree_path == worktree_path_new(repo_root, branch_name)
            s4 == IF path_exists(s3.wts, worktree_path)
                  THEN git_worktree_remove(s3, worktree_path, "remove" \notin faults)
                  ELSE s3
            s5 == git_worktree_add_b(s4, branch_name, worktree_path,
                                     s_origin_slash \o main_branch, FALSE, "new",
                                     "add-1" \notin faults)
            s6 == git_worktree_add(s5, worktree_path, branch_name, "new",
                                   "add-2" \notin faults)
        IN  IF ~s6.ok THEN Returned(s6, FALSE, None)
            ELSE Returned(s6, TRUE, worktree_path)

\* A changed create_worktree: a failed fetch ends the call.
create_worktree_fetch_aborts(s0, branch_name, where, main_ok, faults) ==
    LET repo_root == get_repo_root(where)
        s1 == git_other(s0, "rev-parse --show-toplevel", <<>>, repo_root # None)
    IN  IF repo_root = None THEN Returned(s1, FALSE, None)
        ELSE
        LET main_branch == get_main_branch(main_ok)
            s2 == git_other(s1, "rev-parse --verify", <<s_main>>, main_ok)
            s3 == git_other(s2, "fetch origin", <<main_branch>>, "fetch" \notin faults)
            worktree_path == worktree_path_new(repo_root, branch_name)
            s4 == IF path_exists(s3.wts, worktree_path)
                  THEN git_worktree_remove(s3, worktree_path, "remove" \notin faults)
                  ELSE s3
            s5 == git_worktree_add_b(s4, branch_name, worktree_path,
                                     s_origin_slash \o main_branch, FALSE, "new",
                                     "add-1" \notin faults)
            s6 == IF ~s5.ok
                  THEN git_worktree_add(s5, worktree_path, branch_name, "new",
                                        "add-2" \notin faults)
                  ELSE s5
        IN  IF ~s3.ok THEN Returned(s3, FALSE, None)
            ELSE IF ~s6.ok THEN Returned(s6, FALSE, None)
            ELSE Returned(s6, TRUE, worktree_path)

\* create_worktree
create_worktree(s0, branch_name, where, main_ok, faults) ==
    LET repo_root == get_repo_root(where)
        s1 == git_other(s0, "rev-parse --show-toplevel", <<>>, repo_root # None)
    IN  IF repo_root = None THEN Returned(s1, FALSE, None)
        ELSE
        LET main_branch == get_main_branch(main_ok)
            s2 == git_other(s1, "rev-parse --verify", <<s_main>>, main_ok)
            s3 == git_other(s2, "fetch origin", <<main_branch>>, "fetch" \notin faults)
            worktree_path == worktree_path_new(repo_root, branch_name)
            s4 == IF path_exists(s3.wts, worktree_path)
                  THEN git_worktree_remove(s3, worktree_path, "remove" \notin faults)
                  ELSE s3
            s5 == git_worktree_add_b(s4, branch_name, worktree_path,
                                     s_origin_slash \o main_branch, FALSE, "new",
                                     "add-1" \notin faults)
            s6 == IF ~s5.ok
                  THEN git_worktree_add(s5, worktree_path, branch_name, "new",
                                        "add-2" \notin faults)
                  ELSE s5
        IN  IF ~s6.ok THEN Returned(s6, FALSE, None)
            ELSE Returned(s6, TRUE, worktree_path)

\* A changed create_worktree_for_existing_branch: the two conversion commands
\* run whether or not the detached add succeeded.
create_worktree_for_existing_branch_always_converts(s0, branch_name, where, faults) ==
    LET repo_root == get_repo_root(where)
        s1 == git_other(s0, "rev-parse --show-toplevel", <<>>, repo_root # None)
    IN  IF repo_root = None THEN Returned(s1, FALSE, None)
        ELSE
        LET s2 == git_fetch_into(s1, branch_name, "fetch" \notin faults)
            s3 == IF ~s2.ok
                  THEN git_other(s2, "fetch origin", <<>>, "fetch-all" \notin faults)
                  ELSE s2
            worktree_path == worktree_path_existing(repo_root, branch_name)
            s4 == IF path_exists(s3.wts, worktree_path)
                  THEN git_worktree_remove(s3, worktree_path, "remove" \notin faults)
                  ELSE s3
            s5 == git_other(s4, "worktree prune", <<>>, "prune" \notin faults)
            s6 == git_worktree_add(s5, worktree_path, branch_name, "existing",
                                   "add-1" \notin faults)
            s7 == IF ~s6.ok
                  THEN git_worktree_add_b(s6, branch_name, worktree_path,
                                          s_origin_slash \o branch_name, TRUE, "existing",
                                          "add-2" \notin faults)
                  ELSE s6
            s8 == IF ~s7.ok
                  THEN LET d == git_worktree_add_detach(s7, worktree_path,
                                                        s_origin_slash \o branch_name,
                                                        "existing", "add-3" \notin faults)
                           c == git_checkout_B(d, worktree_path, branch_name,
                                               "checkout" \notin faults)
                           u == git_other(c, "branch --set-upstream-to",
                                          <<s_origin_slash \o branch_name>>,
                                          "set-upstream" \notin faults)
                       IN  [u EXCEPT !.ok = d.ok]
                  ELSE s7
        IN  IF ~s8.ok THEN Returned(s8, FALSE, None)
            ELSE Returned(s8, TRUE, worktree_path)

\* A changed create_worktree_for_existing_branch: the full fetch is always issued.
create_worktree_for_existing_branch_always_fetches_all(s0, branch_name, where, faults) ==
    LET repo_root == get_repo_root(where)
        s1 == git_other(s0, "rev-parse --show-toplevel", <<>>, repo_root # None)
    IN  IF repo_root = None THEN Returned(s1, FALSE, None)
        ELSE
        LET s2 == git_fetch_into(s1, branch_name, "fetch" \notin faults)
            s3 == git_other(s2, "fetch origin", <<>>, "fetch-all" \notin faults)
            worktree_path == worktree_path_existing(repo_root, branch_name)
            s4 == IF path_exists(s3.wts, worktree_path)
                  THEN git_worktree_remove(s3, worktree_path, "remove" \notin faults)
                  ELSE s3
            s5 == git_other(s4, "worktree prune", <<>>, "prune" \notin faults)
            s6 == git_worktree_add(s5, worktree_path, branch_name, "existing",
                                   "add-1" \notin faults)
            s7 == IF ~s6.ok
                  THEN git_worktree_add_b(s6, branch_name, worktree_path,
                                          s_origin_slash \o branch_name, TRUE, "existing",
                                          "add-2" \notin faults)
                  ELSE s6
            s8 == IF ~s7.ok
                  THEN LET d == git_worktree_add_detach(s7, worktree_path,
                                                        s_origin_slash \o branch_name,
                                                        "existing", "add-3" \notin faults)
                       IN  IF d.ok
                           THEN LET c == git_checkout_B(d, worktree_path, branch_name,
                                                        "checkout" \notin faults)
                                    u == git_other(c, "branch --set-upstream-to",
                                                   <<s_origin_slash \o branch_name>>,
                                                   "set-upstream" \notin faults)
                                IN  [u EXCEPT !.ok = d.ok]
                           ELSE d
                  ELSE s7
        IN  IF ~s8.ok THEN Returned(s8, FALSE, None)
            ELSE Returned(s8, TRUE, worktree_path)

\* A changed create_worktree_for_existing_branch: prune only after a remove.
create_worktree_for_existing_branch_prunes_after_remove(s0, branch_name, where, faults) ==
    LET repo_root == get_repo_root(where)
        s1 == git_other(s0, "rev-parse --show-toplevel", <<>>, repo_root # None)
    IN  IF repo_root = None THEN Returned(s1, FALSE, None)
        ELSE
        LET s2 == git_fetch_into(s1, branch_name, "fetch" \notin faults)
            s3 == IF ~s2.ok
                  THEN git_other(s2, "fetch origin", <<>>, "fetch-all" \notin faults)
                  ELSE s2
            worktree_path == worktree_path_existing(repo_root, branch_name)
            s4 == IF path_exists(s3.wts, worktree_path)
                  THEN git_worktree_remove(s3, worktree_path, "remove" \notin faults)
                  ELSE s3
            s5 == IF path_exists(s3.wts, worktree_path)
                  THEN git_other(s4, "worktree prune", <<>>, "prune" \notin faults)
                  ELSE s4
            s6 == git_worktree_add(s5, worktree_path, branch_name, "existing",
                                   "add-1" \notin faults)
            s7 == IF ~s6.ok
                  THEN git_worktree_add_b(s6, branch_name, worktree_path,
                                          s_origin_slash \o branch_name, TRUE, "existing",
                                          "add-2" \notin faults)
                  ELSE s6
            s8 == IF ~s7.ok
                  THEN LET d == git_worktree_add_detach(s7, worktree_path,
                                                        s_origin_slash \o branch_name,
                                                        "existing", "add-3" \notin faults)
                       IN  IF d.ok
                           THEN LET c == git_checkout_B(d, worktree_path, branch_name,
                                                        "checkout" \notin faults)
                                    u == git_other(c, "branch --set-upstream-to",
                                                   <<s_origin_slash \o branch_name>>,
                                                   "set-upstream" \notin faults)
                                IN  [u EXCEPT !.ok = d.ok]
                           ELSE d
                  ELSE s7
        IN  IF ~s8.ok THEN Returned(s8, FALSE, None)
            ELSE Returned(s8, TRUE, worktree_path)

\* create_worktree_for_existing_branch
create_worktree_for_existing_branch(s0, branch_name, where, faults) ==
    LET repo_root == get_repo_root(where)
        s1 == git_other(s0, "rev-parse --show-toplevel", <<>>, repo_root # None)
    IN  IF repo_root = None THEN Returned(s1, FALSE, None)
        ELSE
        LET s2 == git_fetch_into(s1, branch_name, "fetch" \notin faults)
            s3 == IF ~s2.ok
                  THEN git_other(s2, "fetch origin", <<>>, "fetch-all" \notin faults)
                  ELSE s2
            worktree_path == worktree_path_existing(repo_root, branch_name)
            s4 == IF path_exists(s3.wts, worktree_path)
                  THEN git_worktree_remove(s3, worktree_path, "remove" \notin faults)
                  ELSE s3
            s5 == git_other(s4, "worktree prune", <<>>, "prune" \notin faults)
            s6 == git_worktree_add(s5, worktree_path, branch_name, "existing",
                                   "add-1" \notin faults)
            s7 == IF ~s6.ok
                  THEN git_worktree_add_b(s6, branch_name, worktree_path,
                                          s_origin_slash \o branch_name, TRUE, "existing",
                                          "add-2" \notin faults)
                  ELSE s6
            s8 == IF ~s7.ok
                  THEN LET d == git_worktree_add_detach(s7, worktree_path,
                                                        s_origin_slash \o branch_name,
                                                        "existing", "add-3" \notin faults)
                       IN  IF d.ok
                           THEN LET c == git_checkout_B(d, worktree_path, branch_name,
                                                        "checkout" \notin faults)
                                    u == git_other(c, "branch --set-upstream-to",
                                                   <<s_origin_slash \o branch_name>>,
                                                   "set-upstream" \notin faults)
                                IN  [u EXCEPT !.ok = d.ok]
                           ELSE d
                  ELSE s7
        IN  IF ~s8.ok THEN Returned(s8, FALSE, None)
            ELSE Returned(s8, TRUE, worktree_path)

\* A changed remove_worktree: nothing is attempted without a repository root.
remove_worktree_needs_repo_root(s0, worktree_path, where, faults) ==
    LET repo_root == get_repo_root(where)
        s1 == git_other(s0, "rev-parse --show-toplevel", <<>>, repo_root # None)
        s2 == git_worktree_remove(s1, worktree_path,
                                  where = "repo" /\ "remove" \notin faults)
    IN  IF repo_root = None THEN Returned(s1, FALSE, None)
        ELSE Returned(s2, s2.ok, None)

\* remove_worktree: run in `get_repo_root(cwd) or cwd`
remove_worktree(s0, worktree_path, where, faults) ==
    LET repo_root == get_repo_root(where)
        s1 == git_other(s0, "rev-parse --show-toplevel", <<>>, repo_root # None)
        s2 == git_worktree_remove(s1, worktree_path,
                                  where = "repo" /\ "remove" \notin faults)
    IN  Returned(s2, s2.ok, None)

\* A changed test: the branch name compared without lower-casing.
is_protected_case_sensitive(branch_name) == branch_name \in PROTECTED_BRANCHES

\* The protected-branch test of push_branch.
is_protected(branch_name) == lower(branch_name) \in PROTECTED_BRANCHES

\* push_branch: git push needs a repository and a local branch of that name.
push_branch(s0, branch_name, where, faults) ==
    IF is_protected(branch_name) THEN Returned(s0, FALSE, None)
    ELSE LET s1 == git_other(s0, "push -u origin", <<branch_name>>,
                             where = "repo" /\ branch_name \in s0.brs
                                 /\ "push" \notin faults)
         IN  IF ~s1.ok THEN Returned(s1, FALSE, None)
             ELSE Returned(s1, TRUE, None)

----------------------------------------------------------------------------
(* git.py: commit_changes.  The working tree is clean, or has changes that  *)
(* are all unstaged, all staged, or some of each ("mixed").                 *)

TreeStates == {"clean", "unstaged", "staged", "mixed"}

\* At most this many commits are created in one run of the model.
MaxCommits == 3

CommitSlots == {"add", "status", "commit"}

\* What a failed git leaves on stderr: a diagnostic, or nothing when it was
\* killed before writing one.
s_fatal == <<"f", "a", "t", "a", "l">>
Diagnostics == {<<>>, s_fatal}

\* What `git status --porcelain` prints for a tree with changes.
s_porcelain == <<"M", " ", "f">>

\* The state commit_changes threads through its commands; `out` is the
\* output run_git returned for the last command.
TreeState(tr, n, log) ==
    [tree |-> tr, commits |-> n, log |-> log, ok |-> TRUE, out |-> <<>>]

\* git add -A: stages every change.
git_add_A(s, env, diag) ==
    [s EXCEPT !.tree = IF env /\ s.tree # "clean" THEN "staged" ELSE s.tree,
              !.log = Append(s.log, Git("add -A", <<>>, env)),
              !.ok = env,
              !.out = IF env THEN <<>> ELSE diag]

\* git status --porcelain: one line per change, nothing for a clean tree.
git_status_porcelain(s, env, diag) ==
    [s EXCEPT !.log = Append(s.log, Git("status --porcelain", <<>>, env)),
              !.ok = env,
              !.out = IF ~env THEN diag
                      ELSE IF s.tree = "clean" THEN <<>> ELSE s_porcelain]

\* git commit -m <message>: commits what is staged and fails when nothing is.
git_commit(s, env, diag) ==
    LET ok == env /\ s.tree \in {"staged", "mixed"}
    IN  [s EXCEPT !.tree = IF ~ok THEN s.tree
                           ELSE IF s.tree = "mixed" THEN "unstaged" ELSE "clean",
                  !.commits = IF ok THEN s.commits + 1 ELSE s.commits,
                  !.log = Append(s.log, Git("commit -m", <<>>, ok)),
                  !.ok = ok,
                  !.out = IF ok THEN <<>> ELSE s_fatal]

\* A changed commit_changes: `git commit` runs whatever status printed.
commit_changes_always_commits(s0, where, faults, diag) ==
    LET s1 == git_add_A(s0, where = "repo" /\ "add" \notin faults, diag)
        s2 == git_status_porcelain(s1, where = "repo" /\ "status" \notin faults, diag)
        s3 == git_commit(s2, where = "repo" /\ "commit" \notin faults, diag)
    IN  IF ~s3.ok THEN Returned(s3, FALSE, None)
        ELSE Returned(s3, TRUE, None)

\* commit_changes
commit_changes(s0, where, faults, diag) ==
    LET s1 == git_add_A(s0, where = "repo" /\ "add" \notin faults, diag)
        s2 == git_status_porcelain(s1, where = "repo" /\ "status" \notin faults, diag)
    IN  IF s2.out = <<>> THEN Returned(s2, TRUE, None)
        ELSE LET s3 == git_commit(s2, where = "repo" /\ "commit" \notin faults, diag)
             IN  IF ~s3.ok THEN Returned(s3, FALSE, None)
                 ELSE Returned(s3, TRUE, None)

HasChangesSlots == {"add", "status"}

\* has_uncommitted_changes: bool(output.strip()) if success else False.  The
\* outputs of the model hold no white space to strip.
has_uncommitted_changes(s0, where, faults, diag) ==
    LET s1 == git_add_A(s0, where = "repo" /\ "add" \notin faults, diag)
        s2 == git_status_porcelain(s1, where = "repo" /\ "status" \notin faults, diag)
    IN  Returned(s2, IF s2.ok THEN s2.out # <<>> ELSE FALSE, None)

----------------------------------------------------------------------------
(* CLI commands of git.py (main) *)

\* The git state at the start of a command: empty log, nothing removed.
Start == GitState(worktrees, branches, <<>>, {})

\* What every git.py command leaves behind.
Finish(a, where, r, code) ==
    /\ arg' = a
    /\ cwd' = where
    /\ worktrees' = r.s.wts
    /\ branches' = r.s.brs
    /\ cmds' = r.s.log
    /\ removed' = r.s.rm
    /\ ret' = [ok |-> r.ok, path |-> r.path]
    /\ exit_code' = code
    /\ UNCHANGED has_main
    /\ UNCHANGED ci_vars
    /\ UNCHANGED tree_vars
    /\ UNCHANGED logs_vars
    /\ UNCHANGED out_vars
    /\ UNCHANGED calls

\* create-worktree <branch>
CreateWorktree(branch, where, faults) ==
    /\ cmd' = "create-worktree"
    /\ LET r == create_worktree(Start, branch, where, has_main, faults)
       IN  Finish(branch, where, r, IF r.path # None THEN 0 ELSE 1)

\* checkout-worktree <branch>
CheckoutWorktree(branch, where, faults) ==
    /\ cmd' = "checkout-worktree"
    /\ LET r == create_worktree_for_existing_branch(Start, branch, where, faults)
       IN  Finish(branch, where, r, IF r.path # None THEN 0 ELSE 1)

\* remove-worktree <path>
RemoveWorktree(path, where, faults) ==
    /\ cmd' = "remove-worktree"
    /\ LET r == remove_worktree(Start, path, where, faults)
       IN  Finish(path, where, r, IF r.ok THEN 0 ELSE 1)

\* push <branch>
Push(branch, where, faults) ==
    /\ cmd' = "push"
    /\ LET r == push_branch(Start, branch, where, faults)
       IN  Finish(branch, where, r, IF r.ok THEN 0 ELSE 1)

\* No git.py command has run.
GitIdle ==
    /\ worktrees = {}
    /\ branches = {}
    /\ has_main = TRUE
    /\ cwd = "repo"
    /\ arg = None
    /\ cmds = <<>>
    /\ removed = {}
    /\ ret = [ok |-> TRUE, path |-> None]

\* No commit has been made and the working tree is clean.
TreeIdle ==
    /\ tree = "clean"
    /\ commits = 0

\* get_failed_ci_logs has not run.
LogsIdle ==
    /\ gh_run = [jobs |-> [kind |-> "error", data |-> <<>>], job_log |-> "error",
                 list |-> [kind |-> "error", data |-> <<>>], run_log |-> "error"]
    /\ gh_cmds = <<>>
    /\ logs_out = [raised |-> FALSE, text |-> <<>>]

\* The create_worktree invocations that may run at the same time.
Invocations == {1, 2}

\* One running create_worktree: where it is in the function, its branch
\* argument, what worktree_path.exists() told it, the success of its last
\* add, the path it returned (None before it returns and on failure), and the
\* git commands it has issued.
Call(pc, branch, exists, success, path, log) ==
    [pc |-> pc, branch |-> branch, exists |-> exists, success |-> success,
     path |-> path, log |-> log]

\* No create_worktree is running.
CallsIdle ==
    calls = [p \in Invocations |-> Call("done", None, FALSE, FALSE, None, <<>>)]

\* Neither main-branch nor list-worktrees has run.
OutIdle ==
    /\ git_list = [ok |-> FALSE, worktrees |-> <<>>]
    /\ stdout = <<>>

CIIdle ==
    /\ gh_view = "json"
    /\ gh_list = [kind |-> "json", data |-> <<>>]
    /\ gh_checks = [n \in PRNumbers |-> [kind |-> "json", data |-> <<>>]]
    /\ collection = <<>>
    /\ checks_out = <<>>
    /\ pr = NoPullRequest
    /\ prs = <<>>

Init ==
    /\ CallsIdle
    /\ OutIdle
    /\ CIIdle
    /\ TreeIdle
    /\ LogsIdle
    /\ worktrees = {}
    /\ branches = {}
    /\ has_main \in BOOLEAN
    /\ cwd = "repo"
    /\ arg = None
    /\ cmds = <<>>
    /\ removed = {}
    /\ ret = [ok |-> TRUE, path |-> None]
    /\ cmd = "none"
    /\ exit_code = 0

Next ==
    \/ \E b \in WorktreeBranches, w \in Cwds :
          \E F \in FaultSets(CreateSlots, w) : CreateWorktree(b, w, F)
    \/ \E b \in WorktreeBranches, w \in Cwds :
          \E F \in FaultSets(CheckoutSlots, w) : CheckoutWorktree(b, w, F)
    \/ \E p \in WorktreePaths, w \in Cwds :
          \E F \in FaultSets(RemoveSlots, w) : RemoveWorktree(p, w, F)
    \/ \E b \in PushBranches, w \in Cwds :
          \E F \in FaultSets(PushSlots, w) : Push(b, w, F)

\* The git.py commands, one after another, on one repository.
Spec == Init /\ [][Next]_vars

----------------------------------------------------------------------------
(* Mainline detection on a repository whose `main` branch comes and goes *)

\* main-branch: prints get_main_branch(); `rev-parse --verify main` succeeds
\* when run in a repository that has a `main` ref.
MainBranch(where) ==
    /\ cmd' = "main-branch"
    /\ LET main_ok == where = "repo" /\ has_main
       IN  /\ cmds' = <<Git("rev-parse --verify", <<s_main>>, main_ok)>>
           /\ stdout' = get_main_branch(main_ok)
    /\ cwd' = where
    /\ arg' = None
    /\ removed' = {}
    /\ exit_code' = 0
    /\ UNCHANGED <<worktrees, branches, has_main, ret, git_list>>
    /\ UNCHANGED ci_vars
    /\ UNCHANGED tree_vars
    /\ UNCHANGED logs_vars
    /\ UNCHANGED calls

\* Between two commands the repository gains or loses its `main` branch.
MainChanges ==
    /\ has_main' = ~has_main
    /\ UNCHANGED <<worktrees, branches, cwd, arg, cmds, removed, ret, cmd, exit_code>>
    /\ UNCHANGED ci_vars
    /\ UNCHANGED tree_vars
    /\ UNCHANGED logs_vars
    /\ UNCHANGED out_vars
    /\ UNCHANGED calls

InitMain == Init

NextMain ==
    \/ \E w \in Cwds : MainBranch(w)
    \/ \E b \in WorktreeBranches, w \in Cwds :
          \E F \in FaultSets(CreateSlots, w) : CreateWorktree(b, w, F)
    \/ MainChanges

\* main-branch and create-worktree, one after another, while the mainline of
\* the repository changes between them.
SpecMain == InitMain /\ [][NextMain]_vars

----------------------------------------------------------------------------
(* create_worktree invocations running at the same time on one repository, *)
(* each advancing one git command (or one path test) at a time             *)

\* Branch names given to the concurrent invocations; both lead to one path.
RaceBranches == {s_f_slash_x, s_f_dash_x}

\* The worktree state as the invocation p sees it when it runs a command.
Seen(p) == GitState(worktrees, branches, calls[p].log, {})

\* What a step of the invocation p leaves in the variables other than the
\* repository and p's own record.
RaceFrame(p, call) ==
    /\ calls' = [calls EXCEPT ![p] = call]
    /\ UNCHANGED <<has_main, cwd, arg, cmds, removed, ret, cmd, exit_code>>
    /\ UNCHANGED ci_vars
    /\ UNCHANGED tree_vars
    /\ UNCHANGED logs_vars
    /\ UNCHANGED out_vars

\* create_worktree up to the fetch: get_repo_root, get_main_branch, fetch.
RaceStart(p) ==
    /\ calls[p].pc = "start"
    /\ LET s1 == git_other(Seen(p), "rev-parse --show-toplevel", <<>>, TRUE)
           s2 == git_other(s1, "rev-parse --verify", <<s_main>>, has_main)
           s3 == git_other(s2, "fetch origin", <<get_main_branch(has_main)>>, TRUE)
       IN  RaceFrame(p, [calls[p] EXCEPT !.pc = "check", !.log = s3.log])
    /\ UNCHANGED <<worktrees, branches>>

\* A changed path test: an invocation waits while another one is between
\* its path test and its return.
RaceCheck_under_lock(p) ==
    /\ calls[p].pc = "check"
    /\ \A q \in Invocations \ {p} : calls[q].pc \in {"start", "check", "done"}
    /\ LET exists == path_exists(worktrees, worktree_path_new(RepoRoot, calls[p].branch))
       IN  RaceFrame(p, [calls[p] EXCEPT !.pc = IF exists THEN "remove" ELSE "add_b",
                                         !.exists = exists])
    /\ UNCHANGED <<worktrees, branches>>

\* if worktree_path.exists()
RaceCheck(p) ==
    /\ calls[p].pc = "check"
    /\ LET exists == path_exists(worktrees, worktree_path_new(RepoRoot, calls[p].branch))
       IN  RaceFrame(p, [calls[p] EXCEPT !.pc = IF exists THEN "remove" ELSE "add_b",
                                         !.exists = exists])
    /\ UNCHANGED <<worktrees, branches>>

\* git worktree remove --force <path>
RaceRemove(p) ==
    /\ calls[p].pc = "remove"
    /\ LET s == git_worktree_remove(Seen(p), worktree_path_new(RepoRoot, calls[p].branch),
                                    TRUE)
       IN  /\ worktrees' = s.wts
           /\ branches' = s.brs
           /\ RaceFrame(p, [calls[p] EXCEPT !.pc = "add_b", !.log = s.log])

\* git worktree add -b <branch> <path> origin/<mainline>
RaceAddB(p) ==
    /\ calls[p].pc = "add_b"
    /\ LET worktree_path == worktree_path_new(RepoRoot, calls[p].branch)
           s == git_worktree_add_b(Seen(p), calls[p].branch, worktree_path,
                                   s_origin_slash \o get_main_branch(has_main), FALSE,
                                   "new", TRUE)
       IN  /\ worktrees' = s.wts
           /\ branches' = s.brs
           /\ RaceFrame(p, [calls[p] EXCEPT
                               !.pc = IF s.ok THEN "done" ELSE "add",
                               !.success = s.ok,
                               !.path = IF s.ok THEN worktree_path ELSE None,
                               !.log = s.log])

\* if not success: git worktree add <path> <branch>; then return
RaceAdd(p) ==
    /\ calls[p].pc = "add"
    /\ LET worktree_path == worktree_path_new(RepoRoot, calls[p].branch)
           s == git_worktree_add(Seen(p), worktree_path, calls[p].branch, "new", TRUE)
       IN  /\ worktrees' = s.wts
           /\ branches' = s.brs
           /\ RaceFrame(p, [calls[p] EXCEPT
                               !.pc = "done",
                               !.success = s.ok,
                               !.path = IF s.ok THEN worktree_path ELSE None,
                               !.log = s.log])

\* Whatever the invocation p does next.
RaceStep(p) ==
    \/ RaceStart(p)
    \/ RaceCheck(p)
    \/ RaceRemove(p)
    \/ RaceAddB(p)
    \/ RaceAdd(p)

\* Two invocations are started on a repository that has no worktree yet or
\* has one from an earlier create_worktree.
InitRace ==
    /\ CIIdle
    /\ TreeIdle
    /\ LogsIdle
    /\ OutIdle
    /\ \E b \in RaceBranches :
          /\ worktrees \in { {}, {[path |-> worktree_path_new(RepoRoot, b), branch |-> b,
                                   flow |-> "new"]} }
          /\ branches = { w.branch : w \in worktrees }
    /\ has_main = TRUE
    /\ cwd = "repo"
    /\ arg = None
    /\ cmds = <<>>
    /\ removed = {}
    /\ ret = [ok |-> TRUE, path |-> None]
    /\ calls \in [Invocations ->
                    { Call("start", b, FALSE, FALSE, None, <<>>) : b \in RaceBranches }]
    /\ cmd = "create-worktree"
    /\ exit_code = 0

NextRace == \E p \in Invocations : RaceStep(p)

\* Two create_worktree invocations interleaved command by command.
SpecRace == InitRace /\ [][NextRace]_vars

----------------------------------------------------------------------------
(* list_worktrees on the porcelain listing that git prints *)

\* At most this many worktrees are listed, the main one included.
MaxWorktrees == 2

s_newline == <<"\n">>
s_worktree_sp == <<"w", "o", "r", "k", "t", "r", "e", "e", " ">>
s_branch_sp == <<"b", "r", "a", "n", "c", "h", " ">>
s_refs_heads == <<"r", "e", "f", "s", "/", "h", "e", "a", "d", "s", "/">>
s_HEAD_line == <<"H", "E", "A", "D", " ", "0", "a">>
s_detached == <<"d", "e", "t", "a", "c", "h", "e", "d">>

\* A branch whose own name holds the text "refs/heads/".
s_x_refs_heads_y == <<"x", "/">> \o s_refs_heads \o <<"y">>

\* The directories and the checked-out states of the listed worktrees;
\* Detached stands for a worktree on a detached HEAD.
ListedPaths == { <<"/", "r">>, <<"/", "w">>, <<"/", "v">> }
Detached == <<"Detached">>
ListedBranches == {Detached, s_main, s_f_slash_x, s_x_refs_heads_y}

Listed == [path : ListedPaths, branch : ListedBranches]

\* The worktrees of a repository: at least the main one, no directory twice.
Listings ==
    { l \in SeqsUpTo(Listed, MaxWorktrees) :
         /\ Len(l) >= 1
         /\ \A i, j \in 1..Len(l) : i # j => l[i].path # l[j].path }

\* What `git worktree list --porcelain` prints for one worktree.
porcelain_stanza(w) ==
    s_worktree_sp \o w.path \o s_newline \o s_HEAD_line \o s_newline
        \o (IF w.branch = Detached THEN s_detached
            ELSE s_branch_sp \o s_refs_heads \o w.branch)

\* The whole listing as run_git hands it over (stdout, stripped): the
\* stanzas separated by an empty line.
porcelain(listing) ==
    join(s_newline \o s_newline, [i \in 1..Len(listing) |-> porcelain_stanza(listing[i])])

\* str.startswith(prefix)
startswith(s, prefix) == Len(s) >= Len(prefix) /\ SubSeq(s, 1, Len(prefix)) = prefix

\* s[n:]
from_index(s, n) == SubSeq(s, n + 1, Len(s))

\* str.replace(old, new) for a non-empty old of any length.
str_replace(s, old, new) == join(new, split(s, old))

\* d[key] = value on a dict, modelled as a function on its keys.
dict_set(d, key, value) ==
    [k \in DOMAIN d \cup {key} |-> IF k = key THEN value ELSE d[k]]

\* The empty dict, and the truthiness of a dict.
empty_dict == [k \in {} |-> <<>>]
dict_truthy(d) == DOMAIN d # {}

\* for line in output.split("\n") of list_worktrees
RECURSIVE parse_porcelain(_, _, _, _)
parse_porcelain(lines, k, result, current) ==
    IF k > Len(lines)
    THEN IF dict_truthy(current) THEN Append(result, current) ELSE result
    ELSE LET line == lines[k]
         IN  IF startswith(line, s_worktree_sp)
             THEN parse_porcelain(lines, k + 1,
                                  IF dict_truthy(current) THEN Append(result, current)
                                  ELSE result,
                                  dict_set(empty_dict, "path", from_index(line, 9)))
             ELSE IF startswith(line, s_branch_sp)
             THEN parse_porcelain(lines, k + 1, result,
                                  dict_set(current, "branch",
                                           str_replace(from_index(line, 7), s_refs_heads, <<>>)))
             ELSE parse_porcelain(lines, k + 1, result, current)

\* list_worktrees
list_worktrees(response) ==
    IF ~response.ok THEN <<>>
    ELSE parse_porcelain(split(porcelain(response.worktrees), s_newline), 1, <<>>, empty_dict)

\* list-worktrees
ListWorktrees ==
    /\ cmd' = "list-worktrees"
    /\ cmds' = <<Git("worktree list --porcelain", <<>>, git_list.ok)>>
    /\ stdout' = list_worktrees(git_list)
    /\ arg' = None
    /\ removed' = {}
    /\ exit_code' = 0
    /\ UNCHANGED <<worktrees, branches, has_main, cwd, ret, git_list>>
    /\ UNCHANGED ci_vars
    /\ UNCHANGED tree_vars
    /\ UNCHANGED logs_vars
    /\ UNCHANGED calls

InitList ==
    /\ CallsIdle
    /\ CIIdle
    /\ TreeIdle
    /\ LogsIdle
    /\ GitIdle
    /\ git_list \in { [ok |-> TRUE, worktrees |-> l] : l \in Listings }
                       \cup { [ok |-> FALSE, worktrees |-> <<>>] }
    /\ stdout = <<>>
    /\ cmd = "none"
    /\ exit_code = 0

NextList == ListWorktrees

\* list-worktrees on the worktrees a repository can have.
SpecList == InitList /\ [][NextList]_vars

----------------------------------------------------------------------------
(* The commit command on a working tree that is edited between calls *)

\* commit --message <m>
Commit(where, faults, diag) ==
    /\ commits < MaxCommits
    /\ cmd' = "commit"
    /\ LET r == commit_changes(TreeState(tree, commits, <<>>), where, faults, diag)
       IN  /\ tree' = r.s.tree
           /\ commits' = r.s.commits
           /\ cmds' = r.s.log
           /\ ret' = [ok |-> r.ok, path |-> r.path]
           /\ exit_code' = IF r.ok THEN 0 ELSE 1
    /\ arg' = None
    /\ cwd' = where
    /\ UNCHANGED <<worktrees, branches, has_main, removed>>
    /\ UNCHANGED ci_vars
    /\ UNCHANGED logs_vars
    /\ UNCHANGED out_vars
    /\ UNCHANGED calls

\* has-changes: prints the boolean and exits 1 when there are changes.
HasChanges(where, faults, diag) ==
    /\ cmd' = "has-changes"
    /\ LET r == has_uncommitted_changes(TreeState(tree, commits, <<>>), where, faults, diag)
       IN  /\ tree' = r.s.tree
           /\ commits' = r.s.commits
           /\ cmds' = r.s.log
           /\ ret' = [ok |-> r.ok, path |-> r.path]
           /\ exit_code' = IF ~r.ok THEN 0 ELSE 1
    /\ arg' = None
    /\ cwd' = where
    /\ UNCHANGED <<worktrees, branches, has_main, removed>>
    /\ UNCHANGED ci_vars
    /\ UNCHANGED logs_vars
    /\ UNCHANGED out_vars
    /\ UNCHANGED calls

\* Somebody changes a file of the working tree.
Edit ==
    /\ tree \in {"clean", "staged"}
    /\ tree' = IF tree = "clean" THEN "unstaged" ELSE "mixed"
    /\ UNCHANGED <<commits, cmd, exit_code>>
    /\ UNCHANGED git_vars
    /\ UNCHANGED ci_vars
    /\ UNCHANGED logs_vars
    /\ UNCHANGED out_vars
    /\ UNCHANGED calls

InitCommit ==
    /\ CallsIdle
    /\ OutIdle
    /\ CIIdle
    /\ LogsIdle
    /\ GitIdle
    /\ tree \in TreeStates
    /\ commits = 0
    /\ cmd = "none"
    /\ exit_code = 0

NextCommit ==
    \/ \E w \in Cwds :
          \E F \in FaultSets(CommitSlots, w) :
             \E d \in IF w = "repo" THEN Diagnostics ELSE {s_fatal} : Commit(w, F, d)
    \/ \E w \in Cwds :
          \E F \in FaultSets(HasChangesSlots, w) :
             \E d \in IF w = "repo" THEN Diagnostics ELSE {s_fatal} : HasChanges(w, F, d)
    \/ Edit

SpecCommit == InitCommit /\ [][NextCommit]_vars

----------------------------------------------------------------------------
(* CLI commands of github.py (main) *)

Repos == {None, <<"o", "/", "r">>}

\* my-prs
MyPrs(repo) ==
    /\ cmd' = "my-prs"
    /\ arg' = repo
    /\ prs' = get_my_prs(gh_list, repo)
    /\ exit_code' = 0
    /\ checks_out' = <<>>
    /\ pr' = NoPullRequest
    /\ UNCHANGED <<gh_view, gh_list, gh_checks, collection>>
    /\ UNCHANGED <<worktrees, branches, has_main, cwd, cmds, removed, ret>>
    /\ UNCHANGED tree_vars
    /\ UNCHANGED logs_vars
    /\ UNCHANGED out_vars
    /\ UNCHANGED calls

\* pr-checks <n>
PrChecks(n) ==
    /\ cmd' = "pr-checks"
    /\ arg' = n
    /\ checks_out' = get_pr_checks(gh_checks[n])
    /\ pr' = NoPullRequest
    /\ prs' = <<>>
    /\ exit_code' = 0
    /\ UNCHANGED <<gh_view, gh_list, gh_checks, collection>>
    /\ UNCHANGED <<worktrees, branches, has_main, cwd, cmds, removed, ret>>
    /\ UNCHANGED tree_vars
    /\ UNCHANGED logs_vars
    /\ UNCHANGED out_vars
    /\ UNCHANGED calls

\* pr-with-checks <n>
PrWithChecks(n, repo) ==
    /\ cmd' = "pr-with-checks"
    /\ arg' = n
    /\ pr' = get_pr_with_checks(n, repo)
    /\ exit_code' = IF pr' # NoPullRequest THEN 0 ELSE 1
    /\ checks_out' = <<>>
    /\ prs' = <<>>
    /\ UNCHANGED <<gh_view, gh_list, gh_checks, collection>>
    /\ UNCHANGED <<worktrees, branches, has_main, cwd, cmds, removed, ret>>
    /\ UNCHANGED tree_vars
    /\ UNCHANGED logs_vars
    /\ UNCHANGED out_vars
    /\ UNCHANGED calls

\* all-prs-status
AllPrsStatus(repo) ==
    /\ cmd' = "all-prs-status"
    /\ arg' = repo
    /\ prs' = get_all_prs_with_status(repo)
    /\ exit_code' = 0
    /\ checks_out' = <<>>
    /\ pr' = NoPullRequest
    /\ UNCHANGED <<gh_view, gh_list, gh_checks, collection>>
    /\ UNCHANGED <<worktrees, branches, has_main, cwd, cmds, removed, ret>>
    /\ UNCHANGED tree_vars
    /\ UNCHANGED logs_vars
    /\ UNCHANGED out_vars
    /\ UNCHANGED calls

InitCI ==
    /\ CallsIdle
    /\ OutIdle
    /\ GitIdle
    /\ TreeIdle
    /\ LogsIdle
    /\ gh_view \in ViewResponses
    /\ gh_list \in ListResponses
    /\ gh_checks \in { f \in [PRNumbers -> ChecksResponses] :
                         \A n \in PRNumbers : n # 1 => f[n] \in OtherChecksResponses }
    /\ collection = <<>>
    /\ cmd = "none"
    /\ checks_out = <<>>
    /\ pr = NoPullRequest
    /\ prs = <<>>
    /\ exit_code = 0

NextCI ==
    \/ \E repo \in Repos : MyPrs(repo)
    \/ \E n \in PRNumbers : PrChecks(n)
    \/ \E n \in PRNumbers, repo \in Repos : PrWithChecks(n, repo)
    \/ \E repo \in Repos : AllPrsStatus(repo)

\* The github.py commands against every answer of the hosting platform's CLI.
SpecCI == InitCI /\ [][NextCI]_vars

----------------------------------------------------------------------------
(* The failed-checks command against every answer of the hosting platform's CLI *)

\* failed-checks <n>: prints get_failed_checks of the PR, exits 1 without a PR.
FailedChecks(n, repo) ==
    /\ cmd' = "failed-checks"
    /\ arg' = n
    /\ pr' = get_pr_with_checks(n, repo)
    /\ checks_out' = IF pr' # NoPullRequest THEN get_failed_checks(pr') ELSE <<>>
    /\ exit_code' = IF pr' # NoPullRequest THEN 0 ELSE 1
    /\ prs' = <<>>
    /\ UNCHANGED <<gh_view, gh_list, gh_checks, collection>>
    /\ UNCHANGED <<worktrees, branches, has_main, cwd, cmds, removed, ret>>
    /\ UNCHANGED tree_vars
    /\ UNCHANGED logs_vars
    /\ UNCHANGED out_vars
    /\ UNCHANGED calls

InitFailed == InitCI

NextFailed == \E n \in PRNumbers, repo \in Repos : FailedChecks(n, repo)

SpecFailed == InitFailed /\ [][NextFailed]_vars

----------------------------------------------------------------------------
(* The ci-logs command against every answer of the hosting platform's CLI *)

\* ci-logs <n> [--check <name>]: prints the returned text; an exception
\* ends the process with a traceback and exit status 1.
CiLogs(n, check_name) ==
    /\ cmd' = "ci-logs"
    /\ arg' = [pr_number |-> n, check |-> check_name]
    /\ LET r == get_failed_ci_logs(n, check_name)
       IN  /\ logs_out' = [raised |-> r.raised, text |-> r.text]
           /\ gh_cmds' = r.log
           /\ exit_code' = IF r.raised THEN 1 ELSE 0
    /\ UNCHANGED <<gh_view, gh_list, gh_checks, collection, checks_out, pr, prs, gh_run>>
    /\ UNCHANGED <<worktrees, branches, has_main, cwd, cmds, removed, ret>>
    /\ UNCHANGED tree_vars
    /\ UNCHANGED out_vars
    /\ UNCHANGED calls

InitLogs ==
    /\ CallsIdle
    /\ OutIdle
    /\ GitIdle
    /\ TreeIdle
    /\ gh_view = "json"
    /\ gh_list = [kind |-> "json", data |-> <<>>]
    /\ gh_checks \in { f \in [PRNumbers -> LogChecksResponses] :
                         \A n \in PRNumbers : n # 1 => f[n] = [kind |-> "json", data |-> <<>>] }
    /\ gh_run \in [jobs : JobsResponses, job_log : LogResponses,
                    list : RunListResponses, run_log : LogResponses]
    /\ collection = <<>>
    /\ checks_out = <<>>
    /\ pr = NoPullRequest
    /\ prs = <<>>
    /\ gh_cmds = <<>>
    /\ logs_out = [raised |-> FALSE, text |-> <<>>]
    /\ cmd = "none"
    /\ exit_code = 0

\* The logs are asked for the PR whose checks vary.
NextLogs == \E check_name \in CheckNames : CiLogs(1, check_name)

SpecLogs == InitLogs /\ [][NextLogs]_vars

----------------------------------------------------------------------------
(* The status rule on its own, over arbitrary check collections *)

\* The rule as inlined in get_pr_with_checks, applied to `collection`.
DeriveWithChecks ==
    /\ cmd' = "derive-with-checks"
    /\ pr' = [PullRequest(1, None) EXCEPT
                 !.checks = collection,
                 !.ci_status = ci_status_with_checks(collection)]
    /\ UNCHANGED <<gh_view, gh_list, gh_checks, collection, checks_out, prs, exit_code>>
    /\ UNCHANGED git_vars
    /\ UNCHANGED tree_vars
    /\ UNCHANGED logs_vars
    /\ UNCHANGED out_vars
    /\ UNCHANGED calls

\* The rule as inlined in get_all_prs_with_status, applied to `collection`.
DeriveAllPrs ==
    /\ cmd' = "derive-all-prs"
    /\ prs' = << [PullRequest(1, None) EXCEPT
                     !.checks = collection,
                     !.ci_status = ci_status_all_prs(collection)] >>
    /\ UNCHANGED <<gh_view, gh_list, gh_checks, collection, checks_out, pr, exit_code>>
    /\ UNCHANGED git_vars
    /\ UNCHANGED tree_vars
    /\ UNCHANGED logs_vars
    /\ UNCHANGED out_vars
    /\ UNCHANGED calls

InitDerive ==
    /\ CallsIdle
    /\ OutIdle
    /\ GitIdle
    /\ TreeIdle
    /\ LogsIdle
    /\ gh_view = "json"
    /\ gh_list = [kind |-> "json", data |-> <<>>]
    /\ gh_checks = [n \in PRNumbers |-> [kind |-> "json", data |-> <<>>]]
    /\ collection \in SeqsUpTo(CICheck, MaxChecks)
    /\ cmd = "none"
    /\ checks_out = <<>>
    /\ pr = NoPullRequest
    /\ prs = <<>>
    /\ exit_code = 0

NextDerive == DeriveWithChecks \/ DeriveAllPrs

SpecDerive == InitDerive /\ [][NextDerive]_vars

----------------------------------------------------------------------------
(* Claims about the derived ci_status *)

Conclusions_of(checks) == { checks[i].conclusion : i \in 1..Len(checks) }
Statuses_of(checks) == { checks[i].status : i \in 1..Len(checks) }

\* The precedence of the specification, stated over the sets of conclusions
\* and statuses that occur in a collection.
Precedence(checks) ==
    CASE checks = <<>> -> s_unknown
      [] checks # <<>> /\ s_failure \in Conclusions_of(checks) -> s_failing
      [] checks # <<>> /\ s_failure \notin Conclusions_of(checks)
            /\ Statuses_of(checks) \cap {s_pending, s_in_progress} # {} -> s_pending
      [] checks # <<>> /\ s_failure \notin Conclusions_of(checks)
            /\ Statuses_of(checks) \cap {s_pending, s_in_progress} = {}
            /\ (Conclusions_of(checks) \ {None}) \subseteq {s_success, s_skipped, s_neutral}
            -> s_passing
      [] OTHER -> s_unknown

\* Every PullRequest a command has returned.
ReturnedPRs == (IF pr # NoPullRequest THEN {pr} ELSE {}) \cup { prs[i] : i \in 1..Len(prs) }

\* C1: for every check collection, the ci_status that the rule inlined in
\* get_pr_with_checks sets and the one that the rule inlined in
\* get_all_prs_with_status sets both equal the reference precedence
\* (empty -> unknown; any failure conclusion -> failing; any pending or
\* in_progress status -> pending; every non-null conclusion among success,
\* skipped, neutral -> passing; otherwise unknown), so the two copies agree.
C1_BothCopiesFollowPrecedence ==
    /\ pr # NoPullRequest =>
          pr.checks = collection /\ pr.ci_status = Precedence(collection)
    /\ \A i \in 1..Len(prs) :
          prs[i].checks = collection /\ prs[i].ci_status = Precedence(collection)
    /\ (pr # NoPullRequest /\ prs # <<>>) => pr.ci_status = prs[1].ci_status

\* Both copies have run on a two-check collection that the last branch but
\* one decides: a null conclusion beside a skipped one, nothing pending.
C1_Witness ==
    /\ pr # NoPullRequest /\ prs # <<>>
    /\ Len(collection) = 2
    /\ collection[1].conclusion = None /\ collection[1].status = s_unknown
    /\ collection[2].conclusion = s_skipped
    /\ pr.ci_status = s_passing /\ prs[1].ci_status = s_passing

\* C2: a collection with at least one check whose conclusion is failure
\* derives to failing, wherever the failing check stands and whatever the
\* other checks are (passing or pending).
C2_FailureAlwaysWins ==
    \A p \in ReturnedPRs :
        (\E i \in 1..Len(p.checks) : p.checks[i].conclusion = s_failure)
            => p.ci_status = s_failing

\* A pending check first, the failing check last, reported failing by both copies.
C2_Witness ==
    /\ pr # NoPullRequest /\ prs # <<>>
    /\ Len(collection) = 2
    /\ collection[1].status = s_pending /\ collection[1].conclusion = None
    /\ collection[2].conclusion = s_failure
    /\ pr.ci_status = s_failing /\ prs[1].ci_status = s_failing

\* "No entry is pending": no status is pending or in_progress.
NonePending(checks) == Statuses_of(checks) \cap {s_pending, s_in_progress} = {}

\* C4 as stated: every collection whose entries all have conclusion success
\* or skipped, none pending, derives to passing (the empty collection
\* included, which satisfies the condition vacuously).
C4_AllSuccessOrSkippedPasses_Original ==
    \A p \in ReturnedPRs :
        (Conclusions_of(p.checks) \subseteq {s_success, s_skipped} /\ NonePending(p.checks))
            => p.ci_status = s_passing

\* C4 (amended): every NON-EMPTY collection whose entries all have conclusion
\* success or skipped, none with status pending or in_progress, derives to
\* passing.
C4_NonEmptyAllSuccessOrSkippedPasses ==
    \A p \in ReturnedPRs :
        (p.checks # <<>> /\ Conclusions_of(p.checks) \subseteq {s_success, s_skipped}
            /\ NonePending(p.checks))
            => p.ci_status = s_passing

\* One success and one skipped conclusion, reported passing.
C4_Witness ==
    /\ pr # NoPullRequest
    /\ Conclusions_of(pr.checks) = {s_success, s_skipped}
    /\ NonePending(pr.checks)
    /\ pr.ci_status = s_passing

\* C5: a collection with at least one check whose status is pending or
\* in_progress and no check whose conclusion is failure derives to pending,
\* whatever the other checks are.
C5_PendingWithoutFailure ==
    \A p \in ReturnedPRs :
        (~NonePending(p.checks) /\ s_failure \notin Conclusions_of(p.checks))
            => p.ci_status = s_pending

\* The scenario [{conclusion: success}, {conclusion: null, status: pending}].
C5_Witness ==
    /\ pr # NoPullRequest
    /\ Len(pr.checks) = 2
    /\ pr.checks[1].conclusion = s_success /\ pr.checks[1].status = s_success
    /\ pr.checks[2].conclusion = None /\ pr.checks[2].status = s_pending
    /\ pr.ci_status = s_pending

----------------------------------------------------------------------------
(* Claims about get_pr_checks *)

\* Every check list a command has fetched, with the PR number it was fetched
\* for; my-prs returns its PRs without fetching their checks.
Fetched ==
    (IF cmd = "pr-checks" THEN {<<arg, checks_out>>} ELSE {})
    \cup (IF cmd = "my-prs" THEN {}
          ELSE { <<p.number, p.checks>> : p \in ReturnedPRs })

PassingConclusions == {s_success, s_skipped, s_neutral}

\* C3: indeterminate states never report as passing: when the ci_status
\* derived from the checks that get_pr_checks built is passing, every check of
\* the collection has a conclusion among success, skipped, neutral (so no
\* check with a null conclusion, such as one whose raw state is empty or
\* absent, is in a collection reported as passing).
C3_PassingHasNoIndeterminateCheck ==
    \A p \in ReturnedPRs :
        p.ci_status = s_passing
            => \A i \in 1..Len(p.checks) : p.checks[i].conclusion \in PassingConclusions

\* C6: when the raw fetch fails, is empty or is unparseable, get_pr_checks
\* returns the empty list (pr-checks still exits 0) and the ci_status derived
\* for that pull request is unknown.
C6_FailedFetchIsEmptyAndUnknown ==
    /\ cmd = "pr-checks" => exit_code = 0
    /\ \A f \in Fetched : gh_checks[f[1]].kind # "json" => f[2] = <<>>
    /\ \A p \in ReturnedPRs : gh_checks[p.number].kind # "json" => p.ci_status = s_unknown

\* get_pr_with_checks returned a PR although `gh pr checks` exited non-zero.
C6_Witness ==
    /\ cmd = "pr-with-checks"
    /\ pr # NoPullRequest
    /\ gh_checks[pr.number].kind = "error"
    /\ pr.checks = <<>>
    /\ pr.ci_status = s_unknown

\* The documented mapping of one raw entry whose state key is present.
MapsAsDocumented(raw, check) ==
    LET st == lower(raw.state)
    IN  /\ st = s_success => check.conclusion = s_success
        /\ st \in {s_failure, s_error} => check.conclusion = s_failure
        /\ st = s_pending => check.conclusion = None
        /\ st \notin {s_success, s_failure, s_error, s_pending}
              => check.status = st /\ check.conclusion = st

\* C7 as stated: SUCCESS -> conclusion success; FAILURE or ERROR -> failure;
\* PENDING -> null; ANY other raw state -> lower-cased as both status and
\* conclusion; one entry per raw entry, in the same order.
C7_RawStateMapping_Original ==
    \A f \in Fetched :
        LET resp == gh_checks[f[1]]
        IN  resp.kind = "json" =>
              /\ Len(f[2]) = Len(resp.data)
              /\ \A i \in 1..Len(resp.data) :
                    resp.data[i].state # Missing
                        => MapsAsDocumented(resp.data[i], f[2][i])

\* C7 (amended): SUCCESS -> conclusion success; FAILURE or ERROR -> failure;
\* PENDING -> null; any other NON-EMPTY raw state -> lower-cased as both
\* status and conclusion; an empty or absent raw state -> status unknown and
\* conclusion null; one entry per raw entry, in the same order.
C7_RawStateMapping ==
    \A f \in Fetched :
        LET resp == gh_checks[f[1]]
        IN  resp.kind = "json" =>
              /\ Len(f[2]) = Len(resp.data)
              /\ \A i \in 1..Len(resp.data) :
                    /\ f[2][i].name = resp.data[i].name
                    /\ IF resp.data[i].state \in {<<>>, Missing}
                       THEN f[2][i].status = s_unknown /\ f[2][i].conclusion = None
                       ELSE MapsAsDocumented(resp.data[i], f[2][i])
                            /\ f[2][i].status = lower(resp.data[i].state)

\* pr-checks mapped a mixed-case Failure and an ERROR, in order.
C7_Witness ==
    /\ cmd = "pr-checks"
    /\ gh_checks[arg].kind = "json"
    /\ Len(gh_checks[arg].data) = 2
    /\ gh_checks[arg].data[1].state = s_Failure
    /\ gh_checks[arg].data[2].state = s_ERROR
    /\ checks_out[1].conclusion = s_failure /\ checks_out[1].status = s_failure
    /\ checks_out[2].conclusion = s_failure /\ checks_out[2].status = s_error

----------------------------------------------------------------------------
(* Claims about git.py *)

\* C8: for every branch argument whose lower-cased form is a protected name,
\* push_branch reports failure and issues no external command, in every state
\* of the repository and from every working directory; the CLI exits
\* non-zero.  No `git push` of a protected name is ever in the command log.
C8_ProtectedPushRefused ==
    /\ (cmd = "push" /\ lower(arg) \in PROTECTED_BRANCHES)
          => cmds = <<>> /\ ~ret.ok /\ exit_code # 0
    /\ \A i \in 1..Len(cmds) :
          cmds[i].git = "push -u origin" => lower(cmds[i].args[1]) \notin PROTECTED_BRANCHES

\* push STAGING, run inside a repository that has worktrees, was refused.
C8_Witness ==
    /\ cmd = "push"
    /\ arg = <<"S", "T", "A", "G", "I", "N", "G">>
    /\ cwd = "repo"
    /\ worktrees # {}
    /\ cmds = <<>>
    /\ exit_code = 1

\* C9: the two creation flows never collide: neither flow force-removes a
\* worktree that the other flow created (the path create_worktree computes
\* for any branch differs from the path create_worktree_for_existing_branch
\* computes for any branch).
C9_FlowsNeverCollide ==
    /\ cmd = "create-worktree" => \A w \in removed : w.flow = "new"
    /\ cmd = "checkout-worktree" => \A w \in removed : w.flow = "existing"

\* C10: after any sequence of create_worktree calls two different branch
\* names never share a worktree path: creating a worktree for one branch
\* never force-removes the worktree that create_worktree made for another.
C10_CreateNeverRemovesOtherBranch ==
    cmd = "create-worktree"
        => \A w \in removed : w.flow = "new" => w.branch = arg

----------------------------------------------------------------------------
(* Claims about worktree creation *)

\* The documented path: <repo-parent>/.worktrees/<repo-name>/<prefix><branch
\* with every "/" turned into "-">, written out component by component.
DocumentedPath(prefix, branch) ==
    << <<"h", "o", "m", "e">>,
       <<".", "w", "o", "r", "k", "t", "r", "e", "e", "s">>,
       <<"a", "p", "p">>,
       prefix \o [i \in 1..Len(branch) |-> IF branch[i] = "/" THEN "-" ELSE branch[i]] >>

s_feature_login == <<"f", "e", "a", "t", "u", "r", "e", "/", "l", "o", "g", "i", "n">>

\* C11: the worktree path depends only on the repository root and the branch
\* name.  Whenever create-worktree succeeds, in whatever state the repository
\* was, the path it returns is <repo-parent>/.worktrees/<repo-name>/<branch
\* with "/" replaced by "-">; whenever checkout-worktree succeeds its path is
\* the same except that the last component carries the prefix "ci-fix-"; the
\* returned path is the one the worktree is registered at; and for branch
\* feature/login in repository app the new-branch path is
\* .worktrees/app/feature-login under the repository's parent.
C11_PathIsFunctionOfRootAndBranch ==
    /\ (cmd = "create-worktree" /\ ret.ok)
          => /\ ret.path = DocumentedPath(<<>>, arg)
             /\ path_exists(worktrees, ret.path)
    /\ (cmd = "checkout-worktree" /\ ret.ok)
          => /\ ret.path = DocumentedPath(s_ci_fix, arg)
             /\ path_exists(worktrees, ret.path)
             /\ path_parent(ret.path) = path_parent(worktree_path_new(RepoRoot, arg))
             /\ path_name(ret.path) = s_ci_fix \o path_name(worktree_path_new(RepoRoot, arg))
    /\ worktree_path_new(RepoRoot, s_feature_login)
          = path_parent(RepoRoot)
               \o << WORKTREE_BASE, <<"a", "p", "p">>,
                     <<"f", "e", "a", "t", "u", "r", "e", "-", "l", "o", "g", "i", "n">> >>

\* create-worktree f/x succeeded in a repository that already had a worktree
\* and returned <repo-parent>/.worktrees/app/f-x.
C11_Witness ==
    /\ cmd = "create-worktree"
    /\ arg = s_f_slash_x
    /\ ret.ok
    /\ Cardinality(worktrees) > 1
    /\ ret.path = << <<"h", "o", "m", "e">>, WORKTREE_BASE, <<"a", "p", "p">>, s_f_dash_x >>

\* The position in the command log of the first command of that name, 0 if none.
FirstIndex(log, names) ==
    IF \E i \in 1..Len(log) : log[i].git \in names
    THEN CHOOSE i \in 1..Len(log) :
            log[i].git \in names /\ \A j \in 1..(i - 1) : log[j].git \notin names
    ELSE 0

AddCommands ==
    {"worktree add -b", "worktree add", "worktree add --track -b", "worktree add --detach"}

\* What the claim promises after create_worktree(b): success, and exactly one
\* worktree registered at the derived path, checked out on b.
CreatedExactlyOne(b) ==
    /\ ret.ok
    /\ exit_code = 0
    /\ ret.path = worktree_path_new(RepoRoot, b)
    /\ { w \in worktrees : w.path = ret.path }
          = { [path |-> ret.path, branch |-> b, flow |-> "new"] }

\* The force-remove of the last command came before any of its adds.
RemovedBeforeAdd ==
    /\ FirstIndex(cmds, {"worktree remove --force"}) > 0
    /\ cmds[FirstIndex(cmds, {"worktree remove --force"})].ok
    /\ FirstIndex(cmds, {"worktree remove --force"}) < FirstIndex(cmds, AddCommands)

\* C12 (as stated): starting from ANY repository state, every create_worktree
\* call for a branch whose git commands are not failed from outside succeeds
\* and leaves exactly one worktree at the derived path, checked out on that
\* branch, with a pre-existing worktree at the path force-removed before the
\* add.
C12_CreateIsIdempotent_Original ==
    [][ \A b \in WorktreeBranches :
           CreateWorktree(b, "repo", {})
              => /\ CreatedExactlyOne(b)'
                 /\ path_exists(worktrees, worktree_path_new(RepoRoot, b))
                       => RemovedBeforeAdd' ]_vars

\* The branch is checked out in a worktree at another path than the derived one.
CheckedOutElsewhere(b) ==
    \E w \in worktrees : w.branch = b /\ w.path # worktree_path_new(RepoRoot, b)

\* C12 (amended): starting from any repository state in which the branch is
\* not checked out in a worktree at another path, every create_worktree call
\* whose git commands are not failed from outside succeeds and leaves exactly
\* one worktree at the derived path, checked out on that branch, with a
\* pre-existing worktree at the path force-removed before the add; and a call
\* that repeats a successful call for the same branch always succeeds so.
C12_CreateIsIdempotent ==
    [][ \A b \in WorktreeBranches :
           CreateWorktree(b, "repo", {})
              => /\ (~CheckedOutElsewhere(b) \/ (cmd = "create-worktree" /\ arg = b /\ ret.ok))
                       => CreatedExactlyOne(b)'
                 /\ (~CheckedOutElsewhere(b)
                        /\ path_exists(worktrees, worktree_path_new(RepoRoot, b)))
                       => RemovedBeforeAdd' ]_vars

\* create-worktree f/x ran on a repository where the same branch already had
\* its worktree at the derived path: the old worktree was force-removed, the
\* add -b failed on the existing branch, the plain add succeeded, and one
\* worktree is at the path.
C12_Witness ==
    /\ cmd = "create-worktree"
    /\ arg = s_f_slash_x
    /\ CreatedExactlyOne(s_f_slash_x)
    /\ removed = { [path |-> ret.path, branch |-> s_f_slash_x, flow |-> "new"] }
    /\ RemovedBeforeAdd
    /\ \E i \in 1..Len(cmds) : cmds[i].git = "worktree add -b" /\ ~cmds[i].ok
    /\ cmds[Len(cmds)] = Git("worktree add", <<ret.path, s_f_slash_x>>, TRUE)

\* The path the last worktree command computed for its branch argument.
TargetPath ==
    IF cmd = "create-worktree" THEN worktree_path_new(RepoRoot, arg)
    ELSE worktree_path_existing(RepoRoot, arg)

\* C13: when create_worktree or create_worktree_for_existing_branch reports
\* failure after all of its add attempts failed, no worktree is registered at
\* the target path on return, whatever state the path was in before the call
\* (also when a worktree was there and the force-remove itself failed).
C13_FailureLeavesNoWorktreeAtPath ==
    ( /\ cmd \in {"create-worktree", "checkout-worktree"}
      /\ ~ret.ok
      /\ FirstIndex(cmds, AddCommands) > 0 )
        => ~path_exists(worktrees, TargetPath)

----------------------------------------------------------------------------
(* Claims about the order of the add strategies *)

\* The add commands of the last command, in the order they were issued.
Adds == SelectSeq(cmds, LAMBDA c : c.git \in AddCommands)

ConversionCommands == {"checkout -B", "branch --set-upstream-to"}

\* C19: in every create_worktree call that resolved the repository root,
\* `worktree add -b <branch> <path> origin/<mainline>` is the first add; the
\* plain `worktree add <path> <branch>` is issued if and only if the first
\* add failed, and nothing is added after it; the call reports failure if
\* and only if both adds failed, and otherwise reports success with the
\* derived path.
C19_CreateTriesAddBThenPlainAdd ==
    (cmd = "create-worktree" /\ cwd = "repo") =>
        LET path == worktree_path_new(RepoRoot, arg)
            mainline == IF has_main THEN s_main ELSE s_master
        IN  /\ Len(Adds) \in {1, 2}
            /\ Adds[1].git = "worktree add -b"
            /\ Adds[1].args = <<arg, path, s_origin_slash \o mainline>>
            /\ Len(Adds) = 2 <=> ~Adds[1].ok
            /\ Len(Adds) = 2
                  => Adds[2].git = "worktree add" /\ Adds[2].args = <<path, arg>>
            /\ ~ret.ok <=> (Len(Adds) = 2 /\ ~Adds[1].ok /\ ~Adds[2].ok)
            /\ ret.ok => ret.path = path /\ exit_code = 0
            /\ ~ret.ok => ret.path = None /\ exit_code = 1

\* create-worktree f-x found the branch already there: add -b failed, the
\* plain add followed and succeeded; and the mainline was master.
C19_Witness ==
    /\ cmd = "create-worktree"
    /\ arg = s_f_dash_x
    /\ ~has_main
    /\ Len(Adds) = 2
    /\ ~Adds[1].ok
    /\ Adds[2].ok
    /\ ret.path = worktree_path_new(RepoRoot, s_f_dash_x)

\* C20: in every create_worktree_for_existing_branch call that resolved the
\* repository root the adds are, in this order, (a) the plain add on the
\* branch, (b) the add with --track -b from origin/<branch>, (c) the
\* detached add from origin/<branch>; each is issued if and only if all
\* earlier ones failed; `checkout -B <branch>` and then `branch
\* --set-upstream-to origin/<branch>` are issued after the detached add if
\* and only if that add succeeded; the call reports failure if and only if
\* all three adds failed.
C20_ExistingTriesThreeStrategiesInOrder ==
    (cmd = "checkout-worktree" /\ cwd = "repo") =>
        LET path == worktree_path_existing(RepoRoot, arg)
            remote == s_origin_slash \o arg
            n == Len(cmds)
            detached == Len(Adds) = 3 /\ Adds[3].ok
        IN  /\ Len(Adds) \in {1, 2, 3}
            /\ Adds[1].git = "worktree add" /\ Adds[1].args = <<path, arg>>
            /\ Len(Adds) >= 2 <=> ~Adds[1].ok
            /\ Len(Adds) >= 2
                  => /\ Adds[2].git = "worktree add --track -b"
                     /\ Adds[2].args = <<arg, path, remote>>
            /\ Len(Adds) = 3 <=> (~Adds[1].ok /\ Len(Adds) >= 2 /\ ~Adds[2].ok)
            /\ Len(Adds) = 3
                  => /\ Adds[3].git = "worktree add --detach"
                     /\ Adds[3].args = <<path, remote>>
            /\ (\E i \in 1..n : cmds[i].git \in ConversionCommands) <=> detached
            /\ detached
                  => /\ cmds[n - 2] = Adds[3]
                     /\ cmds[n - 1].git = "checkout -B" /\ cmds[n - 1].args = <<arg>>
                     /\ cmds[n].git = "branch --set-upstream-to"
                     /\ cmds[n].args = <<remote>>
            /\ ~ret.ok <=> (Len(Adds) = 3 /\ \A i \in 1..3 : ~Adds[i].ok)
            /\ ret.ok => ret.path = path /\ exit_code = 0
            /\ ~ret.ok => ret.path = None /\ exit_code = 1

\* checkout-worktree f/x reached the third strategy: the plain add and the
\* tracking add failed, the detached add succeeded and was converted.
C20_Witness ==
    /\ cmd = "checkout-worktree"
    /\ arg = s_f_slash_x
    /\ Len(Adds) = 3
    /\ ~Adds[1].ok /\ ~Adds[2].ok /\ Adds[3].ok
    /\ cmds[Len(cmds) - 1].git = "checkout -B"
    /\ cmds[Len(cmds)].git = "branch --set-upstream-to"
    /\ ret.ok

----------------------------------------------------------------------------
(* Claims about the PullRequest objects the commands return *)

\* C18: for every PullRequest returned by get_my_prs, get_pr_with_checks or
\* get_all_prs_with_status, ci_status is the derivation applied to the checks
\* stored on that same object, and those checks are the ones fetched for that
\* PR's own number; a PR returned by get_my_prs, which fetches no checks, has
\* an empty checks list and ci_status unknown.
C18_StatusDerivedFromOwnChecks ==
    /\ \A p \in ReturnedPRs : p.ci_status = Precedence(p.checks)
    /\ cmd \in {"pr-with-checks", "all-prs-status"}
          => \A p \in ReturnedPRs : p.checks = get_pr_checks(gh_checks[p.number])
    /\ cmd = "my-prs"
          => \A p \in ReturnedPRs : p.checks = <<>> /\ p.ci_status = s_unknown

\* all-prs-status returned two PRs whose own checks derive to different
\* statuses: the first pending, the second failing.
C18_Witness ==
    /\ cmd = "all-prs-status"
    /\ Len(prs) = 2
    /\ prs[1].number = 1 /\ prs[2].number = 2
    /\ prs[1].checks # <<>> /\ prs[2].checks # <<>>
    /\ prs[1].ci_status = s_pending
    /\ prs[2].ci_status = s_failing

----------------------------------------------------------------------------
(* Claims about environment failures *)

\* The answers of a gh that is missing ("notfound") or exits with an error,
\* as it does when it is not authenticated ("error").
GhUnavailable == {"notfound", "error"}

\* C14: a missing repository or a missing/unauthenticated gh is fatal and
\* reaches the caller as a non-zero exit: every git.py command run where the
\* repository root cannot be resolved exits non-zero, and every github.py
\* command whose gh call fails for lack of the tool or of credentials exits
\* non-zero (never 0 with an empty or default result).
C14_EnvironmentFailureExitsNonZero ==
    /\ (cmd \in {"create-worktree", "checkout-worktree", "remove-worktree", "push"}
           /\ cwd = "elsewhere")
          => exit_code # 0
    /\ (cmd = "pr-checks" /\ gh_checks[arg].kind \in GhUnavailable) => exit_code # 0
    /\ (cmd \in {"my-prs", "all-prs-status"} /\ gh_list.kind \in GhUnavailable)
          => exit_code # 0
    /\ (cmd = "pr-with-checks" /\ gh_view \in GhUnavailable) => exit_code # 0

----------------------------------------------------------------------------
(* Claims about commit_changes *)

CommitInvoked == \E i \in 1..Len(cmds) : cmds[i].git = "commit -m"

\* What the claim promises of a call on a clean tree: success, no `git
\* commit`, no new commit.
NoOpCommitSucceeded(before) ==
    /\ ret.ok
    /\ exit_code = 0
    /\ ~CommitInvoked
    /\ commits = before
    /\ tree = "clean"

----------------------------------------------------------------------------
(* Claims about get_failed_ci_logs *)

\* The raw checks the last ci-logs call had to resolve: those of the PR whose
\* state is FAILURE or ERROR and, under --check, whose name is the given one.
FailingSelected ==
    IF gh_checks[arg.pr_number].kind # "json" THEN <<>>
    ELSE SelectSeq(gh_checks[arg.pr_number].data,
                   LAMBDA c : /\ upper(dict_get(c.state, <<>>)) \in {s_FAILURE, s_ERROR}
                              /\ arg.check \in {None, <<>>, dict_get(c.name, None)})

\* The gh commands of the given kind that put their output into the logs.
Logged(name) == { i \in 1..Len(gh_cmds) : gh_cmds[i].gh = name /\ gh_cmds[i].logged }

\* C16: get_failed_ci_logs never propagates a hard error: for every outcome
\* of the gh commands and every shape of a failing check's link (absent,
\* null, not a CI-run URL, a CI-run URL) the call returns a text and the
\* command exits 0; when no stage yields a log for the failing checks the
\* text is the fixed apology string.
C16_LogsDegradeGracefully ==
    cmd = "ci-logs" =>
        /\ ~logs_out.raised
        /\ exit_code = 0
        /\ logs_out.text # <<>>
        /\ (/\ FailingSelected # <<>>
            /\ Logged("run view --job --log-failed") = {}
            /\ Logged("run view --log-failed") = {})
              => logs_out.text = s_could_not_retrieve

\* C17: the fallback `run list` is issued only when the run-link stage has
\* produced no log for any of the failing checks: no call both issues `run
\* list` and puts the log of a job reached through a check's run link into
\* the text.
C17_FallbackOnlyWhenRunLinksGaveNothing ==
    (cmd = "ci-logs" /\ \E i \in 1..Len(gh_cmds) : gh_cmds[i].gh = "run list")
        => Logged("run view --job --log-failed") = {}

----------------------------------------------------------------------------
(* Claims about the steps around the add strategies *)

\* C21: whenever create_worktree_for_existing_branch returns success, the
\* worktree at the returned path is checked out on the named branch, not on
\* a detached HEAD; also when success came from the detached strategy,
\* whatever `checkout -B` and `branch --set-upstream-to` did.
C21_SuccessMeansOnNamedBranch ==
    (cmd = "checkout-worktree" /\ ret.ok)
        => \E w \in worktrees : w.path = ret.path /\ w.branch = arg

\* The fetch commands of the last command, in the order they were issued.
Fetches == SelectSeq(cmds, LAMBDA c : c.git = "fetch origin")

\* C22: fetching is best-effort in both creation flows: in every call that
\* resolved the repository root, whether the fetch of the mainline
\* (create_worktree) or the direct and the full fetch
\* (create_worktree_for_existing_branch) succeeded or failed, the worktree
\* adds are attempted, and the call reports success exactly when one of its
\* adds succeeded.
C22_FetchIsBestEffort ==
    (cmd \in {"create-worktree", "checkout-worktree"} /\ cwd = "repo")
        => /\ Len(Fetches) >= 1
           /\ Len(Adds) >= 1
           /\ ret.ok <=> \E i \in 1..Len(Adds) : Adds[i].ok
           /\ exit_code = IF ret.ok THEN 0 ELSE 1

\* checkout-worktree succeeded although its direct fetch and its full fetch
\* both failed.
C22_Witness ==
    /\ cmd = "checkout-worktree"
    /\ Len(Fetches) = 2
    /\ ~Fetches[1].ok /\ ~Fetches[2].ok
    /\ Len(Adds) >= 1
    /\ ret.ok

WorktreeCommands == AddCommands \cup {"worktree remove --force", "worktree prune"}

\* The positions in a command log of the commands with one of these names.
Positions(log, names) == { i \in 1..Len(log) : log[i].git \in names }

\* C23: in every create_worktree_for_existing_branch call that resolved the
\* repository root, the direct `fetch origin <branch>:<branch>` is issued
\* first, the full `fetch origin` is issued if and only if the direct fetch
\* failed, and every fetch precedes every worktree remove, prune and add.
C23_FullFetchIffDirectFetchFailed ==
    (cmd = "checkout-worktree" /\ cwd = "repo")
        => /\ Len(Fetches) \in {1, 2}
           /\ Fetches[1].args = <<arg \o <<":">> \o arg>>
           /\ Len(Fetches) = 2 <=> ~Fetches[1].ok
           /\ Len(Fetches) = 2 => Fetches[2].args = <<>>
           /\ Positions(cmds, WorktreeCommands) # {}
           /\ \A i \in Positions(cmds, {"fetch origin"}) :
                 \A j \in Positions(cmds, WorktreeCommands) : i < j

\* checkout-worktree issued the full fetch after a failed direct fetch, then
\* went on to its worktree commands.
C23_Witness ==
    /\ cmd = "checkout-worktree"
    /\ Len(Fetches) = 2
    /\ ~Fetches[1].ok
    /\ Fetches[2].ok
    /\ Len(Adds) >= 1

\* C24: in every create_worktree_for_existing_branch call that resolved the
\* repository root, `worktree remove --force <target path>` is issued exactly
\* when a worktree was at the target path before the call, `worktree prune`
\* is issued exactly once whether or not one was there, the remove precedes
\* the prune, and the prune precedes the first add.
C24_RemoveThenPruneBeforeFirstAdd ==
    [][ (cmd' = "checkout-worktree" /\ cwd' = "repo")
           => LET path == worktree_path_existing(RepoRoot, arg')
                  removes == Positions(cmds', {"worktree remove --force"})
                  prunes == Positions(cmds', {"worktree prune"})
                  adds == Positions(cmds', AddCommands)
              IN  /\ Cardinality(removes) =
                        IF path_exists(worktrees, path) THEN 1 ELSE 0
                  /\ \A i \in removes : cmds'[i].args = <<path>>
                  /\ Cardinality(prunes) = 1
                  /\ adds # {}
                  /\ \A i \in removes : \A j \in prunes : i < j
                  /\ \A i \in prunes : \A j \in adds : i < j ]_vars

\* checkout-worktree found a worktree at its target path: remove, prune and
\* add were issued in that order.
C24_Witness ==
    /\ cmd = "checkout-worktree"
    /\ cwd = "repo"
    /\ FirstIndex(cmds, {"worktree remove --force"}) > 0
    /\ FirstIndex(cmds, {"worktree remove --force"}) < FirstIndex(cmds, {"worktree prune"})
    /\ FirstIndex(cmds, {"worktree prune"}) < FirstIndex(cmds, AddCommands)

\* C25: when the repository root cannot be resolved, create_worktree and
\* create_worktree_for_existing_branch fail at once: the only command issued
\* is the failed `rev-parse --show-toplevel`, no path is returned, the exit
\* code is 1, and the worktrees and branches are what they were before.
C25_NoRepositoryRootFailsImmediately ==
    [][ (cmd' \in {"create-worktree", "checkout-worktree"} /\ cwd' # "repo")
           => /\ cmds' = <<Git("rev-parse --show-toplevel", <<>>, FALSE)>>
              /\ ~ret'.ok
              /\ ret'.path = None
              /\ exit_code' = 1
              /\ worktrees' = worktrees
              /\ branches' = branches
              /\ removed' = {} ]_vars

\* A creation command was run outside any repository while the repository
\* had a worktree that the two flows would otherwise have touched.
C25_Witness ==
    /\ cmd \in {"create-worktree", "checkout-worktree"}
    /\ cwd # "repo"
    /\ ret.path = None
    /\ path_exists(worktrees, TargetPath)

\* C27: every remove_worktree call, run inside a repository or not, issues
\* exactly one `worktree remove --force <path>` for the path it was given and
\* no other worktree command, and reports success (exit code 0) exactly when
\* that command succeeded.
C27_RemoveAttemptsOneForcedRemove ==
    cmd = "remove-worktree"
        => LET removes == Positions(cmds, {"worktree remove --force"})
           IN  /\ Cardinality(removes) = 1
               /\ Positions(cmds, WorktreeCommands) = removes
               /\ \A i \in removes :
                     /\ cmds[i].args = <<arg>>
                     /\ ret.ok <=> cmds[i].ok
               /\ exit_code = IF ret.ok THEN 0 ELSE 1

\* remove-worktree was run outside any repository and still issued its one
\* forced remove.
C27_Witness ==
    /\ cmd = "remove-worktree"
    /\ cwd # "repo"
    /\ Cardinality(Positions(cmds, {"worktree remove --force"})) = 1
    /\ ~ret.ok

----------------------------------------------------------------------------
(* Claims about mainline detection *)

\* The mainline name the repository has right now, seen from a directory.
CurrentMainline(where) == IF where = "repo" /\ has_main THEN s_main ELSE s_master

\* C26: the mainline is detected anew on every call: main-branch prints
\* `main` exactly when `rev-parse --verify main` succeeds in the state of the
\* repository at that call and `master` otherwise, so that across calls the
\* name follows the repository; and every create_worktree that resolved the
\* repository root fetches that name and starts its `worktree add -b` from
\* origin/<that name>, detected in the same call.
C26_MainlineDetectedOnEveryCall ==
    [][ /\ \A w \in Cwds :
              MainBranch(w)
                 => /\ stdout' = CurrentMainline(w)
                    /\ stdout' = s_main <=> cmds'[1].ok
           /\ \A b \in WorktreeBranches :
                 \A F \in FaultSets(CreateSlots, "repo") :
                    CreateWorktree(b, "repo", F)
                       => LET first_add == FirstIndex(cmds', {"worktree add -b"})
                          IN  /\ cmds'[2] = Git("rev-parse --verify", <<s_main>>, has_main)
                              /\ Fetches'[1].args = <<CurrentMainline("repo")>>
                              /\ first_add > 0
                              /\ cmds'[first_add].args[3] =
                                    s_origin_slash \o CurrentMainline("repo") ]_vars

\* main-branch printed `master` for a repository that an earlier
\* create-worktree had seen with a `main` branch.
C26_Witness ==
    /\ cmd = "main-branch"
    /\ cwd = "repo"
    /\ stdout = s_master
    /\ \E w \in worktrees : w.flow = "new"
    /\ ~has_main

----------------------------------------------------------------------------
(* Claims about list_worktrees *)

\* C28: list_worktrees returns one record per listed worktree, in the order
\* of the listing; every record has a path, the one listed; a record has a
\* branch exactly when the worktree is on a branch, and that branch is the
\* listed ref with only its leading `refs/heads/` removed; a failed listing
\* yields the empty list.
C28_OneRecordPerListedWorktree ==
    cmd = "list-worktrees"
        => IF ~git_list.ok THEN stdout = <<>>
           ELSE /\ Len(stdout) = Len(git_list.worktrees)
                /\ \A i \in 1..Len(stdout) :
                      LET w == git_list.worktrees[i]
                      IN  /\ "path" \in DOMAIN stdout[i]
                          /\ stdout[i]["path"] = w.path
                          /\ "branch" \in DOMAIN stdout[i] <=> w.branch # Detached
                          /\ w.branch # Detached => stdout[i]["branch"] = w.branch

----------------------------------------------------------------------------
(* Claims about the commands of the log resolver *)

\* C29: within one get_failed_ci_logs call no gh command is issued twice
\* with the same arguments: `run list` at most once, and
\* `run view <id> --json jobs` at most once for each run id, however many
\* failing checks there are.
C29_NoCommandRepeated ==
    cmd = "ci-logs"
        => \A i, j \in 1..Len(gh_cmds) :
              (gh_cmds[i].gh = gh_cmds[j].gh /\ gh_cmds[i].args = gh_cmds[j].args) => i = j

\* The failing checks of the pull request, whatever their names.
Failing ==
    IF gh_checks[arg.pr_number].kind # "json" THEN <<>>
    ELSE SelectSeq(gh_checks[arg.pr_number].data,
                   LAMBDA c : upper(dict_get(c.state, <<>>)) \in {s_FAILURE, s_ERROR})

\* A filter was given, the checks were retrieved, and no failing check has
\* exactly the filter's name.
FilterMatchesNothing ==
    /\ cmd = "ci-logs"
    /\ truthy(arg.check)
    /\ gh_checks[arg.pr_number].kind = "json"
    /\ FailingSelected = <<>>

\* Only `gh pr checks` was issued, and a text was returned.
OnlyChecksFetched ==
    /\ gh_cmds = <<Gh("pr checks", <<arg.pr_number>>, TRUE, FALSE)>>
    /\ ~logs_out.raised
    /\ exit_code = 0

\* C30 (as stated): with a check-name filter and no failing check of exactly
\* that name - the pull request having no failing check at all included -
\* get_failed_ci_logs returns "Check '<name>' not found or not failing" and
\* issues no run-view, run-list or log command.
C30_UnmatchedFilterIsTerminal_Original ==
    FilterMatchesNothing
        => /\ OnlyChecksFetched
           /\ logs_out.text = check_not_found(arg.check)

\* C30 (amended): with a check-name filter and no failing check of exactly
\* that name, get_failed_ci_logs issues no run-view, run-list or log command;
\* it returns "Check '<name>' not found or not failing" when the pull
\* request has some failing check, and "No failed checks found" when it has
\* none at all.
C30_UnmatchedFilterIsTerminal ==
    FilterMatchesNothing
        => /\ OnlyChecksFetched
           /\ logs_out.text = IF Failing # <<>> THEN check_not_found(arg.check)
                              ELSE s_no_failed_checks

\* ci-logs --check lint on a pull request whose failing check is build.
C30_Witness ==
    /\ FilterMatchesNothing
    /\ Failing # <<>>
    /\ logs_out.text = check_not_found(arg.check)

----------------------------------------------------------------------------
(* Claims about the fallback stage and the text of the log resolver *)

\* The ids of the runs whose logs were requested right after the `run list`
\* at position i of the command log.
RunsFetchedAfter(i) ==
    LET last == CHOOSE j \in i..Len(gh_cmds) :
                   /\ \A k \in (i + 1)..j : gh_cmds[k].gh = "run view --log-failed"
                   /\ (j = Len(gh_cmds) \/ gh_cmds[j + 1].gh # "run view --log-failed")
    IN  [k \in 1..(last - i) |-> gh_cmds[i + k].args[1]]

\* The ids of the first three runs of the listing that concluded in failure.
FirstThreeFailedRuns ==
    IF gh_run.list.kind # "json" THEN <<>>
    ELSE LET failed == SelectSeq(gh_run.list.data, LAMBDA r : r.conclusion = s_failure)
         IN  [k \in 1..(IF Len(failed) < 3 THEN Len(failed) ELSE 3) |-> failed[k].databaseId]

\* How many times a fragment occurs in a text.
Occurrences(text, fragment) == Cardinality({ i \in 1..Len(text) : text[i] = fragment })

\* C31: each execution of the fallback stage requests the logs of the first
\* three runs of the listing that concluded in failure, in listing order, and
\* of no other run; no run log is requested outside a fallback stage; and the
\* returned text holds one run log per request that succeeded with output,
\* none for a request that failed or gave nothing.
C31_FallbackFetchesFirstThreeFailedRuns ==
    cmd = "ci-logs"
        => /\ \A i \in 1..Len(gh_cmds) :
                 gh_cmds[i].gh = "run list" => RunsFetchedAfter(i) = FirstThreeFailedRuns
           /\ \A i \in 1..Len(gh_cmds) :
                 gh_cmds[i].gh = "run view --log-failed"
                    => /\ i > 1
                       /\ gh_cmds[i - 1].gh \in {"run list", "run view --log-failed"}
                       /\ gh_cmds[i].logged <=> gh_run.run_log = "text"
           /\ ~logs_out.raised
                 => Occurrences(logs_out.text, s_run_log[1])
                       = Cardinality(Logged("run view --log-failed"))

\* The fallback ran on a listing with more than three failed runs and put
\* the logs of three runs into the text.
C31_Witness ==
    /\ cmd = "ci-logs"
    /\ Len(SelectSeq(gh_run.list.data, LAMBDA r : r.conclusion = s_failure)) > 3
    /\ Cardinality(Logged("run view --log-failed")) = 3
    /\ Occurrences(logs_out.text, s_run_log[1]) = 3

\* list is made of elements of whole, in the order they have in whole.
InOrderOf(list, whole) ==
    \E idx \in [1..Len(list) -> 1..Len(whole)] :
        /\ \A k \in 1..Len(list) : list[k] = whole[idx[k]]
        /\ \A k, l \in 1..Len(list) : k < l => idx[k] < idx[l]

\* C33: for every pull request that get_pr_with_checks returns,
\* get_failed_checks gives a non-empty list exactly when the PR's ci_status
\* is failing (is_ci_failing); every check it gives has conclusion failure,
\* and the checks come in the order of the PR's check list, none with
\* conclusion failure left out.
C33_FailedChecksIffFailing ==
    (cmd = "failed-checks" /\ pr # NoPullRequest)
        => /\ checks_out # <<>> <=> is_ci_failing(pr)
           /\ \A i \in 1..Len(checks_out) : checks_out[i].conclusion = s_failure
           /\ InOrderOf(checks_out, pr.checks)
           /\ Len(checks_out) =
                 Cardinality({ i \in 1..Len(pr.checks) : pr.checks[i].conclusion = s_failure })

\* failed-checks on a failing pull request that also has a check that did
\* not fail.
C33_Witness ==
    /\ cmd = "failed-checks"
    /\ pr # NoPullRequest
    /\ is_ci_failing(pr)
    /\ Len(checks_out) >= 1
    /\ Len(pr.checks) > Len(checks_out)

----------------------------------------------------------------------------
(* Claims about has-changes *)

\* C34: has_uncommitted_changes is a read-only query: every has-changes call
\* leaves the working tree, the index and the history as they were.
C34_HasChangesIsReadOnly ==
    [][ \A w \in Cwds :
           \A F \in FaultSets(HasChangesSlots, w) :
              \A d \in Diagnostics :
                 HasChanges(w, F, d) => (tree' = tree /\ commits' = commits) ]_vars

----------------------------------------------------------------------------
(* Claims about concurrent invocations *)

\* The invocation q has issued a command of this name that succeeded on path.
Succeeded(q, name, path) ==
    \E i \in 1..Len(calls[q].log) :
        /\ calls[q].log[i].git \in name
        /\ calls[q].log[i].ok
        /\ path \in { calls[q].log[i].args[k] : k \in 1..Len(calls[q].log[i].args) }

\* The path both invocations work on.
RacePath(p) == worktree_path_new(RepoRoot, calls[p].branch)

\* C32: nothing makes a create_worktree invocation wait for another one: at
\* every point of every interleaving each running invocation can take its
\* next step.  So the races are possible, and they are the only way the
\* following can happen: a worktree that an invocation returned with success
\* is gone only when another invocation force-removed it, and an invocation
\* that found its path free fails only when another invocation added a
\* worktree at that path.
C32_InvocationsAreNotSerialized ==
    \A p \in Invocations :
        /\ calls[p].pc # "done" => ENABLED RaceStep(p)
        /\ (calls[p].pc = "done" /\ calls[p].success /\ ~path_exists(worktrees, calls[p].path))
              => \E q \in Invocations \ {p} :
                    Succeeded(q, {"worktree remove --force"}, calls[p].path)
        /\ (calls[p].pc = "done" /\ calls[p].log # <<>> /\ ~calls[p].success
               /\ ~calls[p].exists)
              => \E q \in Invocations \ {p} : Succeeded(q, AddCommands, RacePath(p))

\* Two invocations for the same branch: one has created the worktree and
\* returned it with success, and the other, still running, has force-removed
\* it after finding the path occupied.
C32_Witness ==
    \E p, q \in Invocations :
        /\ p # q
        /\ calls[p].branch = calls[q].branch
        /\ calls[q].pc = "done"
        /\ calls[q].success
        /\ Succeeded(q, AddCommands, calls[q].path)
        /\ calls[p].pc = "add_b"
        /\ calls[p].exists
        /\ Succeeded(p, {"worktree remove --force"}, calls[q].path)
        /\ ~path_exists(worktrees, calls[q].path)

----------------------------------------------------------------------------
(* Claims about repeated sections of the returned logs *)

\* The ids of the failed jobs whose log went into the text.
JobsLogged == { gh_cmds[i].args[1] : i \in Logged("run view --job --log-failed") }

\* C35: in the text get_failed_ci_logs returns, the log of each failed job
\* appears at most once, also when several failing checks link to the same
\* CI run: no job's log is put into the text by two commands, and the text
\* holds as many job logs as there are jobs whose log was fetched.
C35_EachJobLogAtMostOnce ==
    (cmd = "ci-logs" /\ ~logs_out.raised)
        => /\ \A i, j \in Logged("run view --job --log-failed") :
                 gh_cmds[i].args = gh_cmds[j].args => i = j
           /\ Occurrences(logs_out.text, s_job_log[1]) <= Cardinality(JobsLogged)

====
